---------------------------- MODULE Spec2Model ----------------------------
(***************************************************************************)
(* A model of the offline analysis pipeline of the sports assessment app:  *)
(*   mobile-app/src/services/ml/offlineAnalysis.js  (OfflineAnalysisService)*)
(*   mobile-app/src/services/ml/cheatDetection.js   (CheatDetectionService) *)
(*                                                                         *)
(* Units.  Angles are whole degrees, centre-of-mass heights are thousandths *)
(* of the normalised image height, timestamps are milliseconds, quality    *)
(* scores and confidences are thousandths (0.8 is 800).  The suspicion     *)
(* score is a JavaScript Number built by repeated +=, and three of the     *)
(* weight combinations with decimal sum 0.70 come out one ulp above the    *)
(* literal 0.7, so it is kept as the IEEE-754 double the code computes     *)
(* (see Double below).                                                     *)
(***************************************************************************)
EXTENDS Integers, Sequences, FiniteSets, TLC

VARIABLES
    \* ---- OfflineAnalysisService (singleton) and its invocations ----
    isInitialized,      \* this.isInitialized
    analysisCache,      \* this.analysisCache: Map, as a sequence in insertion order
    calls,              \* the invocations of analyzeVideoOffline, by slot
    invocations,        \* number of invocations started so far
    \* ---- movement analysis applied to a given pose sequence ----
    poseData,           \* the input of analyzeMovement
    testType,           \* its test kind
    movement,           \* what analyzeMovement returned (or threw)
    performance,        \* performanceMetrics: what calculatePerformance returned
    benchmark,          \* benchmarking: what performBenchmarking returned
    \* ---- integrity analysis applied to given check outcomes ----
    stepResults,        \* the outcomes of detectCheatAttempts' steps 2..5
    failingStep,        \* the step of detectCheatAttempts that throws (0: none)
    cheatAnalysis,      \* what detectCheatAttempts returned
    movementQuality,    \* performanceMetrics.movementQuality handed to calculateConfidence
    confidence,         \* what calculateConfidence returned
    \* ---- single checks applied to given inputs ----
    detailedScores,     \* the four scores assessMovementQuality combines
    quality,            \* what assessMovementQuality returned for them
    frames,             \* the frames handed to checkBrightnessConsistency
    brightnessConsistency,  \* what checkBrightnessConsistency returned
    scene,              \* who and what is in view in each of the frames
    splicingDetection,  \* what detectSplicing returned
    externalAssistance, \* what checkExternalAssistance returned
    \* ---- the PerformanceOptimizer singleton ----
    optimizer           \* its fields

vars == <<isInitialized, analysisCache, calls, invocations,
          poseData, testType, movement, performance, benchmark,
          stepResults, failingStep, cheatAnalysis, movementQuality, confidence,
          detailedScores, quality, frames, brightnessConsistency,
          scene, splicingDetection, externalAssistance, optimizer>>

serviceVars   == <<isInitialized, analysisCache, calls, invocations>>
movementVars  == <<poseData, testType, movement, performance, benchmark>>
integrityVars == <<stepResults, failingStep, cheatAnalysis, movementQuality, confidence>>
checkVars     == <<detailedScores, quality, frames, brightnessConsistency,
                   scene, splicingDetection, externalAssistance, optimizer>>
sceneVars     == <<scene, splicingDetection, externalAssistance>>

\* The value of a result that has not been produced yet.
Pending == [pending |-> TRUE]
IsPending(v) == "pending" \in DOMAIN v

-----------------------------------------------------------------------------
(***************************************************************************)
(* JavaScript Numbers of the suspicion score.  A double x with             *)
(* 2^-4 <= x < 2 (or x = 0) is the integer x * 2^56, held as two base-2^28 *)
(* limbs because TLC's integers are 32 bits wide.                          *)
(***************************************************************************)
Limb == 268435456       \* 2^28

Double(h, l) == [hi |-> h, lo |-> l]

Zero   == Double(0, 0)
One    == Double(268435456, 0)              \* 1
W010   == Double(26843545, 161061274)       \* the literal 0.1
W015   == Double(40265318, 107374182)       \* the literal 0.15
W020   == Double(53687091, 53687092)        \* the literal 0.2
W025   == Double(67108864, 0)               \* the literal 0.25
W030   == Double(80530636, 214748364)       \* the literal 0.3

\* x > y on Numbers
FGt(x, y) == \/ x.hi > y.hi
             \/ x.hi = y.hi /\ x.lo > y.lo

\* The spacing of the doubles around hi * 2^-28, in units of 2^-56.
Ulp(hi) == IF hi >= 268435456 THEN 16
           ELSE IF hi >= 134217728 THEN 8
           ELSE IF hi >= 67108864 THEN 4
           ELSE IF hi >= 33554432 THEN 2
           ELSE 1

\* x + y, rounded to nearest, ties to even, as IEEE-754 binary64 addition.
FAdd(x, y) ==
    LET lo0   == x.lo + y.lo
        lo1   == lo0 % Limb
        hi1   == x.hi + y.hi + (lo0 \div Limb)
        q     == Ulp(hi1)
        r     == lo1 % q
        down  == lo1 - r
        up    == \/ 2 * r > q
                 \/ 2 * r = q /\ (down \div q) % 2 = 1
        lo2   == IF up THEN down + q ELSE down
    IN  IF lo2 >= Limb THEN Double(hi1 + 1, lo2 - Limb) ELSE Double(hi1, lo2)

\* Mutant of FMin: the clamp to 1 is lost.
FMin_unclamped(x, y) == x

\* Math.min(x, y)
FMin(x, y) == IF FGt(x, y) THEN y ELSE x

\* x - y (x >= y) on Numbers, rounded to nearest, ties to even
FSub(x, y) ==
    LET lo0    == x.lo - y.lo
        borrow == IF lo0 < 0 THEN 1 ELSE 0
        lo1    == lo0 + borrow * Limb
        hi1    == x.hi - y.hi - borrow
        q      == Ulp(hi1)
        r      == lo1 % q
        down   == lo1 - r
        up     == \/ 2 * r > q
                  \/ 2 * r = q /\ (down \div q) % 2 = 1
        lo2    == IF up THEN down + q ELSE down
    IN  IF lo2 >= Limb THEN Double(hi1 + 1, lo2 - Limb) ELSE Double(hi1, lo2)

\* Math.max(x, y)
FMax(x, y) == IF FGt(y, x) THEN y ELSE x

Q05 == Double(134217728, 0)                 \* the literal 0.5
Q06 == Double(161061273, 161061272)         \* the literal 0.6
Q08 == Double(214748364, 214748368)         \* the literal 0.8
Q09 == Double(241591910, 107374184)         \* the literal 0.9

\* The multiple of 0.01 nearest to x, as a number of hundredths.
Hundredths(x) == ((x.hi \div 128) * 100 + 1048576) \div 2097152

-----------------------------------------------------------------------------
(***************************************************************************)
(* CheatDetectionService                                                   *)
(***************************************************************************)
cheatThreshold == Double(187904819, 53687088)   \* the literal 0.7

\* Mutant of Flag: the weight is added but no issue is reported.
Flag_silent(acc, triggered, weight, issue, recommendation) ==
    IF triggered
    THEN [score           |-> FAdd(acc.score, weight),
          issues          |-> acc.issues,
          recommendations |-> acc.recommendations]
    ELSE acc

\* Mutant of Flag: the issue is pushed without its recommendation.
Flag_noRecommendation(acc, triggered, weight, issue, recommendation) ==
    IF triggered
    THEN [score           |-> FAdd(acc.score, weight),
          issues          |-> Append(acc.issues, issue),
          recommendations |-> acc.recommendations]
    ELSE acc

\* One "if (triggered) { score += w; issues.push(..); recommendations.push(..) }"
Flag(acc, triggered, weight, issue, recommendation) ==
    IF triggered
    THEN [score           |-> FAdd(acc.score, weight),
          issues          |-> Append(acc.issues, issue),
          recommendations |-> Append(acc.recommendations, recommendation)]
    ELSE acc

combineAnalysisResults(frameAnalysis, manipulationCheck, movementPatternAnalysis, assistanceCheck) ==
    LET a0 == [score |-> Zero, issues |-> <<>>, recommendations |-> <<>>]
        a1 == Flag(a0, ~frameAnalysis.brightnessConsistency.isConsistent, W015,
                   "Inconsistent lighting detected",
                   "Ensure consistent lighting throughout the recording")
        a2 == Flag(a1, ~frameAnalysis.frameRateConsistency.isConsistent, W010,
                   "Frame rate inconsistencies detected",
                   "Record in a single continuous take")
        a3 == Flag(a2, manipulationCheck.compressionArtifacts.hasArtifacts, W020,
                   "Video compression artifacts detected",
                   "Avoid editing or re-compressing the video")
        a4 == Flag(a3, manipulationCheck.splicingDetection.hasSplicing, W030,
                   "Video splicing detected",
                   "Record the entire test in one continuous take")
        a5 == Flag(a4, ~movementPatternAnalysis.patternConsistency.isConsistent, W015,
                   "Movement pattern inconsistencies",
                   "Follow the test instructions carefully")
        a6 == Flag(a5, assistanceCheck.multiplePeople.hasMultiplePeople, W025,
                   "Multiple people detected in video",
                   "Ensure only the test taker is visible")
        a7 == Flag(a6, ~assistanceCheck.environmentalConsistency.isConsistent, W010,
                   "Environment inconsistencies detected",
                   "Record in a single location")
    IN  [suspicionScore  |-> FMin(One, a7.score),
         issues          |-> a7.issues,
         recommendations |-> IF Len(a7.recommendations) > 0
                             THEN a7.recommendations
                             ELSE <<"Video analysis completed successfully">>]

\* Mutant of isSuspiciousScore: >= instead of >.
isSuspiciousScore_atLeast(score) == ~FGt(cheatThreshold, score)

\* isSuspicious: finalResults.suspicionScore > this.cheatThreshold
\* Mutant of isSuspiciousScore: the threshold is 0.5.
isSuspiciousScore_aboveHalf(score) == FGt(score, Q05)

isSuspiciousScore(score) == FGt(score, cheatThreshold)

\* The outcomes of steps 2..5 of detectCheatAttempts, as far as
\* combineAnalysisResults reads them.
StepResults(brightness, frameRate, artifacts, splicing, pattern, people, environment) ==
    [frameAnalysis |->
        [brightnessConsistency |-> [isConsistent |-> brightness],
         frameRateConsistency  |-> [isConsistent |-> frameRate]],
     manipulationCheck |->
        [compressionArtifacts  |-> [hasArtifacts |-> artifacts],
         splicingDetection     |-> [hasSplicing |-> splicing]],
     movementPatternAnalysis |->
        [patternConsistency    |-> [isConsistent |-> pattern]],
     assistanceCheck |->
        [multiplePeople           |-> [hasMultiplePeople |-> people],
         environmentalConsistency |-> [isConsistent |-> environment]]]

\* Mutant of detectCheatAttempts: a failed analysis is reported as suspicious.
detectCheatAttempts_failClosed(steps, failing) ==
    IF failing = 0
    THEN LET finalResults == combineAnalysisResults(steps.frameAnalysis,
                                 steps.manipulationCheck,
                                 steps.movementPatternAnalysis,
                                 steps.assistanceCheck)
         IN  [isSuspicious     |-> isSuspiciousScore(finalResults.suspicionScore),
              suspicionScore   |-> finalResults.suspicionScore,
              detectedIssues   |-> finalResults.issues,
              recommendations  |-> finalResults.recommendations,
              detailedAnalysis |-> steps]
    ELSE [isSuspicious    |-> TRUE,
          suspicionScore  |-> One,
          detectedIssues  |-> <<"Analysis failed">>,
          recommendations |-> <<"Please try recording again">>,
          error           |-> "step failed"]

\* detectCheatAttempts, given what its steps produce: steps is the outcome of
\* steps 2..5 and failing the number of the step (1..5) that throws, 0 if none.
detectCheatAttempts(steps, failing) ==
    IF failing = 0
    THEN LET finalResults == combineAnalysisResults(steps.frameAnalysis,
                                 steps.manipulationCheck,
                                 steps.movementPatternAnalysis,
                                 steps.assistanceCheck)
         IN  [isSuspicious     |-> isSuspiciousScore(finalResults.suspicionScore),
              suspicionScore   |-> finalResults.suspicionScore,
              detectedIssues   |-> finalResults.issues,
              recommendations  |-> finalResults.recommendations,
              detailedAnalysis |-> steps]
    ELSE [isSuspicious    |-> FALSE,
          suspicionScore  |-> Zero,
          detectedIssues  |-> <<"Analysis failed">>,
          recommendations |-> <<"Please try recording again">>,
          error           |-> "step failed"]

-----------------------------------------------------------------------------
(***************************************************************************)
(* OfflineAnalysisService.calculateConfidence                              *)
(***************************************************************************)
Max(a, b) == IF a > b THEN a ELSE b
Min(a, b) == IF a < b THEN a ELSE b

\* Mutant of calculateConfidence: the quality bonus is given from 0.8 on.
calculateConfidence_inclusive(performanceMetrics, cheat) ==
    LET c0 == 800
        c1 == IF cheat.isSuspicious THEN c0 - 300 ELSE c0
        c2 == IF performanceMetrics.movementQuality >= 800 THEN c1 + 100 ELSE c1
    IN  IF c2 < 0 THEN 0 ELSE IF c2 > 1000 THEN 1000 ELSE c2

calculateConfidence(performanceMetrics, cheat) ==
    LET c0 == 800
        c1 == IF cheat.isSuspicious THEN c0 - 300 ELSE c0
        c2 == IF performanceMetrics.movementQuality > 800 THEN c1 + 100 ELSE c1
    IN  Max(0, Min(1000, c2))

-----------------------------------------------------------------------------
(***************************************************************************)
(* OfflineAnalysisService: movement analysis over a pose sequence.         *)
(* poseData is the sequence analyzePoses returns; the JavaScript index i   *)
(* is position i + 1 of the TLA+ sequence.  A thrown exception is the      *)
(* record Thrown(message).                                                 *)
(***************************************************************************)
Thrown(message) == [thrown |-> message]
IsThrown(v) == "thrown" \in DOMAIN v

supportedTests == {"vertical-jump", "sit-ups", "push-ups", "shuttle-run",
                   "endurance-run", "height-weight", "standing-broad-jump",
                   "50m-sprint", "600m-run", "medicine-ball-throw"}

\* One element of poseData (analyzePoses), with the fields the analysis reads.
Pose(id, knee, elbow, comY, hipY) ==
    [frameId      |-> id,
     timestamp    |-> id * 100,
     keypoints    |-> [leftShoulder |-> [y |-> 500], leftHip |-> [y |-> hipY]],
     bodyAngles   |-> [leftKnee |-> knee, leftElbow |-> elbow],
     centerOfMass |-> [y |-> comY]]

\* "angle || 90": a missing or zero angle reads as 90.
OrDefault90(angle) == IF angle = 0 THEN 90 ELSE angle

Abs(x) == IF x < 0 THEN -x ELSE x

getKneeAngleChange(prevPose, currPose) ==
    Abs(OrDefault90(currPose.bodyAngles.leftKnee) - OrDefault90(prevPose.bodyAngles.leftKnee))

getCenterOfMassChange(prevPose, currPose) ==
    currPose.centerOfMass.y - prevPose.centerOfMass.y

\* A phase as the segmenters push it; duration is in ms (the source divides by 1000).
Phase(name, phaseStart, i, pd) ==
    [phase      |-> name,
     startFrame |-> phaseStart,
     endFrame   |-> i,
     duration   |-> pd[i + 1].timestamp - pd[phaseStart + 1].timestamp]

RECURSIVE JumpLoop(_, _, _, _, _)
JumpLoop(pd, i, currentPhase, phaseStart, phases) ==
    IF i >= Len(pd) THEN phases
    ELSE LET kneeAngleChange    == getKneeAngleChange(pd[i], pd[i + 1])
             centerOfMassChange == getCenterOfMassChange(pd[i], pd[i + 1])
         IN  IF currentPhase = "standing" /\ kneeAngleChange > 20
             THEN JumpLoop(pd, i + 1, "crouch", i,
                           Append(phases, Phase("crouch", phaseStart, i, pd)))
             ELSE IF currentPhase = "crouch" /\ centerOfMassChange > 100
             THEN JumpLoop(pd, i + 1, "jump", i,
                           Append(phases, Phase("jump", phaseStart, i, pd)))
             ELSE IF currentPhase = "jump" /\ centerOfMassChange < -50
             THEN JumpLoop(pd, i + 1, "landing", i,
                           Append(phases, Phase("landing", phaseStart, i, pd)))
             ELSE JumpLoop(pd, i + 1, currentPhase, phaseStart, phases)

\* Mutant of identifyJumpPhases: the landing branch does not ask for the jump state.
RECURSIVE JumpLoop_anyState(_, _, _, _, _)
JumpLoop_anyState(pd, i, currentPhase, phaseStart, phases) ==
    IF i >= Len(pd) THEN phases
    ELSE LET kneeAngleChange    == getKneeAngleChange(pd[i], pd[i + 1])
             centerOfMassChange == getCenterOfMassChange(pd[i], pd[i + 1])
         IN  IF currentPhase = "standing" /\ kneeAngleChange > 20
             THEN JumpLoop_anyState(pd, i + 1, "crouch", i,
                                    Append(phases, Phase("crouch", phaseStart, i, pd)))
             ELSE IF currentPhase = "crouch" /\ centerOfMassChange > 100
             THEN JumpLoop_anyState(pd, i + 1, "jump", i,
                                    Append(phases, Phase("jump", phaseStart, i, pd)))
             ELSE IF centerOfMassChange < -50
             THEN JumpLoop_anyState(pd, i + 1, "landing", i,
                                    Append(phases, Phase("landing", phaseStart, i, pd)))
             ELSE JumpLoop_anyState(pd, i + 1, currentPhase, phaseStart, phases)

identifyJumpPhases_anyState(pd) == JumpLoop_anyState(pd, 1, "standing", 0, <<>>)

identifyJumpPhases(pd) == JumpLoop(pd, 1, "standing", 0, <<>>)

RECURSIVE RepetitiveLoop(_, _, _, _, _, _)
RepetitiveLoop(pd, type, i, isUpPhase, phaseStart, phases) ==
    IF i >= Len(pd) THEN phases
    ELSE LET currPose == pd[i + 1]
             angle == OrDefault90(IF type = "sit-ups"
                                  THEN currPose.bodyAngles.leftKnee
                                  ELSE currPose.bodyAngles.leftElbow)
         IN  IF isUpPhase /\ angle < 60
             THEN RepetitiveLoop(pd, type, i + 1, FALSE, i,
                                 Append(phases, Phase("down", phaseStart, i, pd)))
             ELSE IF ~isUpPhase /\ angle > 120
             THEN RepetitiveLoop(pd, type, i + 1, TRUE, i,
                                 Append(phases, Phase("up", phaseStart, i, pd)))
             ELSE RepetitiveLoop(pd, type, i + 1, isUpPhase, phaseStart, phases)

\* Mutant of identifyRepetitivePhases: the 'up' branch does not ask for the down state.
RECURSIVE RepetitiveLoop_anyState(_, _, _, _, _, _)
RepetitiveLoop_anyState(pd, type, i, isUpPhase, phaseStart, phases) ==
    IF i >= Len(pd) THEN phases
    ELSE LET currPose == pd[i + 1]
             angle == OrDefault90(IF type = "sit-ups"
                                  THEN currPose.bodyAngles.leftKnee
                                  ELSE currPose.bodyAngles.leftElbow)
         IN  IF isUpPhase /\ angle < 60
             THEN RepetitiveLoop_anyState(pd, type, i + 1, FALSE, i,
                                          Append(phases, Phase("down", phaseStart, i, pd)))
             ELSE IF angle > 120
             THEN RepetitiveLoop_anyState(pd, type, i + 1, TRUE, i,
                                          Append(phases, Phase("up", phaseStart, i, pd)))
             ELSE RepetitiveLoop_anyState(pd, type, i + 1, isUpPhase, phaseStart, phases)

identifyRepetitivePhases_anyState(pd, type) ==
    RepetitiveLoop_anyState(pd, type, 1, TRUE, 0, <<>>)

identifyRepetitivePhases(pd, type) == RepetitiveLoop(pd, type, 1, TRUE, 0, <<>>)

\* identifyShuttlePhases, identifyRunningPhases and identifyGenericPhases are
\* called but defined nowhere: the call throws a TypeError.
identifyMovementPhasesThrows(type) ==
    type \notin {"vertical-jump", "sit-ups", "push-ups"}

identifyMovementPhases(pd, type) ==
    IF type = "vertical-jump" THEN identifyJumpPhases(pd)
    ELSE IF type \in {"sit-ups", "push-ups"} THEN identifyRepetitivePhases(pd, type)
    ELSE <<>>

\* Mutant of countRepetitiveMovements: an unmatched last phase counts too.
countRepetitiveMovements_roundUp(pd, type) ==
    (Len(identifyRepetitivePhases(pd, type)) + 1) \div 2

countRepetitiveMovements(pd, type) ==
    Len(identifyRepetitivePhases(pd, type)) \div 2

\* Mutant of countRepetitions: a single movement is not counted.
countRepetitions_noSingle(pd, type) ==
    IF type \in {"sit-ups", "push-ups"} THEN countRepetitiveMovements(pd, type) ELSE 0

countRepetitions(pd, type) ==
    IF type \in {"sit-ups", "push-ups"} THEN countRepetitiveMovements(pd, type)
    ELSE 1

\* ---- assessMovementQuality ----
RECURSIVE SeqSum(_)
SeqSum(values) == IF Len(values) = 0 THEN 0 ELSE Head(values) + SeqSum(Tail(values))

KneeAngles(pd)  == [k \in 1..Len(pd) |-> OrDefault90(pd[k].bodyAngles.leftKnee)]
ElbowAngles(pd) == [k \in 1..Len(pd) |-> OrDefault90(pd[k].bodyAngles.leftElbow)]

\* avgKneeAngle < 90 ? 1.0 : 0.7  (an empty poseData averages to NaN: 0.7)
assessSitUpForm(pd) ==
    IF Len(pd) > 0 /\ SeqSum(KneeAngles(pd)) < 90 * Len(pd) THEN 1000 ELSE 700

\* 0.1 off for every pose whose shoulder and hip heights differ by more than 0.1
assessPushUpForm(pd) ==
    LET off == Cardinality({k \in 1..Len(pd) :
                   Abs(pd[k].keypoints.leftShoulder.y - pd[k].keypoints.leftHip.y) > 100})
    IN  Max(0, 1000 - 100 * off)

assessJumpForm(pd) == IF Len(identifyJumpPhases(pd)) >= 3 THEN 1000 ELSE 500

assessForm(pd, type) ==
    IF type = "sit-ups" THEN assessSitUpForm(pd)
    ELSE IF type = "push-ups" THEN assessPushUpForm(pd)
    ELSE IF type = "vertical-jump" THEN assessJumpForm(pd)
    ELSE 1000

\* calculateVariance(values) reduces values without an initial value: it throws
\* a TypeError on an empty array.
calculateVarianceThrows(values) == Len(values) = 0

\* calculateVariance(durations) < 0.5 (s^2), durations in ms and multiples of
\* 100 ms: with d = duration / 100, variance < 0.5 iff n*sum(d^2) - sum(d)^2 < 50*n^2.
VarianceBelowHalf(durations) ==
    LET n  == Len(durations)
        d  == [k \in 1..n |-> durations[k] \div 100]
        sq == [k \in 1..n |-> d[k] * d[k]]
    IN  n * SeqSum(sq) - SeqSum(d) * SeqSum(d) < 50 * n * n

assessConsistencyThrows(pd, type) ==
    /\ type \in {"sit-ups", "push-ups"}
    /\ calculateVarianceThrows(identifyRepetitivePhases(pd, type))

assessConsistency(pd, type) ==
    IF type \in {"sit-ups", "push-ups"}
    THEN LET phases    == identifyRepetitivePhases(pd, type)
             durations == [k \in 1..Len(phases) |-> phases[k].duration]
         IN  IF VarianceBelowHalf(durations) THEN 1000 ELSE 700
    ELSE 1000

SeqMax(values) == CHOOSE m \in {values[k] : k \in 1..Len(values)} :
                      \A k \in 1..Len(values) : values[k] <= m
SeqMin(values) == CHOOSE m \in {values[k] : k \in 1..Len(values)} :
                      \A k \in 1..Len(values) : values[k] >= m

\* Math.max() of no values is -Infinity and Math.min() is +Infinity.
assessRangeOfMotion(pd, type) ==
    IF type = "sit-ups"
    THEN (IF Len(pd) = 0 \/ SeqMax(KneeAngles(pd)) < 45 THEN 1000 ELSE 800)
    ELSE IF type = "push-ups"
    THEN (IF Len(pd) > 0 /\ SeqMin(ElbowAngles(pd)) < 60 THEN 1000 ELSE 700)
    ELSE 1000

expectedDuration(type) ==
    IF type = "vertical-jump" THEN 2000
    ELSE IF type \in {"sit-ups", "push-ups"} THEN 30000
    ELSE IF type = "shuttle-run" THEN 20000
    ELSE IF type = "endurance-run" THEN 180000
    ELSE 10000

\* poseData[poseData.length - 1].timestamp throws a TypeError on an empty poseData.
totalDurationThrows(pd) == Len(pd) = 0

totalDuration(pd) == pd[Len(pd)].timestamp - pd[1].timestamp

\* ratio > 0.5 && ratio < 2.0 ? 1.0 : 0.8, ratio = totalDuration / expected
assessTiming(pd, type) ==
    LET expected == expectedDuration(type)
    IN  IF 2 * totalDuration(pd) > expected /\ totalDuration(pd) < 2 * expected
        THEN 1000 ELSE 800

\* Mutant of qualityLabel: a score at a threshold gets the band above.
qualityLabel_inclusive(overallScore) ==
    IF overallScore >= 800 THEN "excellent"
    ELSE IF overallScore >= 600 THEN "good"
    ELSE "needs-improvement"

qualityLabel(overallScore) ==
    IF overallScore > 800 THEN "excellent"
    ELSE IF overallScore > 600 THEN "good"
    ELSE "needs-improvement"

\* Lines 480-486: the mean of the four scores and its label
overallQuality(scores) ==
    LET overallScore == (scores.form + scores.consistency
                         + scores.rangeOfMotion + scores.timing) \div 4
    IN  [overallScore   |-> overallScore,
         detailedScores |-> scores,
         quality        |-> qualityLabel(overallScore)]

assessMovementQuality(pd, type) ==
    overallQuality([form          |-> assessForm(pd, type),
                    consistency   |-> assessConsistency(pd, type),
                    rangeOfMotion |-> assessRangeOfMotion(pd, type),
                    timing        |-> assessTiming(pd, type)])

\* analyzeMovement: the movement record, or the exception one of its parts throws
\* (in the order the parts are evaluated).
analyzeMovement(pd, type) ==
    IF identifyMovementPhasesThrows(type)
    THEN Thrown("this.identify...Phases is not a function")
    ELSE IF assessConsistencyThrows(pd, type)
    THEN Thrown("Reduce of empty array with no initial value")
    ELSE IF totalDurationThrows(pd)
    THEN Thrown("Cannot read properties of undefined (reading 'timestamp')")
    ELSE [testType          |-> type,
          totalFrames       |-> Len(pd),
          keyMovementPhases |-> identifyMovementPhases(pd, type),
          repetitionCount   |-> countRepetitions(pd, type),
          movementQuality   |-> assessMovementQuality(pd, type),
          timingAnalysis    |-> [totalDuration |-> totalDuration(pd)]]

\* ---- calculatePerformance ----
\* Math.round(x / d) for x >= 0: halves round up.
RoundDiv(x, d) == (2 * x + d) \div (2 * d)

\* Math.round(score * 10) / 10, in tenths; overallScore is in thousandths.
calculatePerformanceScore(movementAnalysis, type) ==
    LET overall == movementAnalysis.movementQuality.overallScore
    IN  IF type \in {"sit-ups", "push-ups"}
        THEN RoundDiv(movementAnalysis.repetitionCount * overall, 100)
        ELSE IF type = "vertical-jump" THEN overall
        ELSE RoundDiv(overall, 2)

HasJumpPhase(phases) == \E k \in 1..Len(phases) : phases[k].phase = "jump"
\* phases.find(p => p.phase === 'jump'): the first one
JumpPhase(phases) ==
    phases[CHOOSE k \in 1..Len(phases) :
              /\ phases[k].phase = "jump"
              /\ \A j \in 1..(k - 1) : phases[j].phase # "jump"]

\* cm: Math.round(duration * 50) with duration in seconds, or the default 30
estimateJumpHeight(movementAnalysis) ==
    IF HasJumpPhase(movementAnalysis.keyMovementPhases)
    THEN RoundDiv(JumpPhase(movementAnalysis.keyMovementPhases).duration, 20)
    ELSE 30

\* microseconds: duration (s) / 1000 is duration (ms) / 1000 ms, or the default 0.5 s
estimateHangTime(movementAnalysis) ==
    IF HasJumpPhase(movementAnalysis.keyMovementPhases)
    THEN JumpPhase(movementAnalysis.keyMovementPhases).duration
    ELSE 500000

\* The metrics set for a test kind; a division by zero yields Infinity or NaN,
\* written "n/0".
extractKeyMetrics(movementAnalysis, type) ==
    IF type = "sit-ups"
    THEN [kind        |-> "repetitions",
          repetitions |-> movementAnalysis.repetitionCount,
          avgDurationPerRep |->
              IF movementAnalysis.repetitionCount = 0 THEN "n/0"
              ELSE "finite"]
    ELSE IF type = "vertical-jump"
    THEN [kind       |-> "jump",
          jumpHeight |-> estimateJumpHeight(movementAnalysis),
          hangTime   |-> estimateHangTime(movementAnalysis)]
    ELSE [kind |-> "none"]

calculatePerformance(movementAnalysis, type) ==
    [testType         |-> type,
     repetitionCount  |-> movementAnalysis.repetitionCount,
     movementQuality  |-> movementAnalysis.movementQuality.overallScore,
     totalDuration    |-> movementAnalysis.timingAnalysis.totalDuration,
     performanceScore |-> calculatePerformanceScore(movementAnalysis, type),
     keyMetrics       |-> extractKeyMetrics(movementAnalysis, type),
     techniqueScore   |-> movementAnalysis.movementQuality.overallScore]

\* ---- performBenchmarking ----
\* A user profile: {} is Profile(FALSE, 0, ""), {age: 15} is Profile(TRUE, 15, "").
Profile(hasAge, age, gender) == [hasAge |-> hasAge, age |-> age, gender |-> gender]

\* Comparisons with an undefined age are all false.
determineAgeGroup(profile) ==
    IF ~profile.hasAge THEN "25-plus"
    ELSE IF profile.age < 13 THEN "under-13"
    ELSE IF profile.age < 16 THEN "13-15"
    ELSE IF profile.age < 19 THEN "16-18"
    ELSE IF profile.age < 25 THEN "19-24"
    ELSE "25-plus"

getPerformanceNorms(type) ==
    IF type = "sit-ups" THEN [poor |-> 10, average |-> 20, good |-> 30, excellent |-> 40]
    ELSE IF type = "push-ups" THEN [poor |-> 5, average |-> 15, good |-> 25, excellent |-> 35]
    ELSE IF type = "vertical-jump" THEN [poor |-> 30, average |-> 40, good |-> 50, excellent |-> 60]
    ELSE [poor |-> 20, average |-> 50, good |-> 70, excellent |-> 90]

\* Mutant of getPercentileCategory: a score at a threshold stays in the tier below.
getPercentileCategory_exclusive(score, norms) ==
    IF score > 10 * norms.excellent THEN "excellent"
    ELSE IF score > 10 * norms.good THEN "good"
    ELSE IF score > 10 * norms.average THEN "average"
    ELSE "needs-improvement"

\* score is in tenths, the norms are whole numbers
getPercentileCategory(score, norms) ==
    IF score >= 10 * norms.excellent THEN "excellent"
    ELSE IF score >= 10 * norms.good THEN "good"
    ELSE IF score >= 10 * norms.average THEN "average"
    ELSE "needs-improvement"

\* overall is a percentage in hundredths (rounded down):
\* min(100, max(0, score / excellent * 100))
calculatePercentiles(metrics) ==
    LET norms == getPerformanceNorms(metrics.testType)
    IN  [overall  |-> Min(10000, Max(0, (metrics.performanceScore * 1000) \div norms.excellent)),
         category |-> getPercentileCategory(metrics.performanceScore, norms)]

getSkillLevel(percentile) ==
    IF percentile >= 9000 THEN "elite"
    ELSE IF percentile >= 7500 THEN "advanced"
    ELSE IF percentile >= 5000 THEN "intermediate"
    ELSE "beginner"

calculateRating(metrics) ==
    LET percentiles == calculatePercentiles(metrics)
    IN  [overall    |-> percentiles.category,
         score      |-> metrics.performanceScore,
         percentile |-> percentiles.overall,
         level      |-> getSkillLevel(percentiles.overall)]

generateBenchmarkRecommendations(metrics) ==
    LET rating == calculateRating(metrics)
    IN  IF rating.overall = "excellent"
        THEN <<"Excellent performance! Consider competitive training.">>
        ELSE IF rating.overall = "good"
        THEN <<"Good performance. Focus on consistency.">>
        ELSE IF rating.overall = "average"
        THEN <<"Average performance. Regular practice recommended.">>
        ELSE <<"Needs improvement. Focus on fundamentals.">>

performBenchmarking(performanceMetrics, userProfile) ==
    [ageGroup        |-> determineAgeGroup(userProfile),
     gender          |-> IF userProfile.gender = "" THEN "male" ELSE userProfile.gender,
     testType        |-> performanceMetrics.testType,
     userScore       |-> performanceMetrics.performanceScore,
     percentiles     |-> calculatePercentiles(performanceMetrics),
     rating          |-> calculateRating(performanceMetrics),
     recommendations |-> generateBenchmarkRecommendations(performanceMetrics)]

generateRecommendations(performanceMetrics, benchmarking) ==
    LET r1 == IF benchmarking.rating.percentile < 5000
              THEN <<"Focus on basic fitness fundamentals">> ELSE <<>>
        r2 == IF performanceMetrics.movementQuality < 700
              THEN <<"Work on proper form and technique">> ELSE <<>>
        r3 == IF benchmarking.rating.level = "elite"
              THEN <<"Consider advanced training programs">> ELSE <<>>
        recommendations == r1 \o r2 \o r3
    IN  IF Len(recommendations) > 0 THEN recommendations
        ELSE <<"Keep up the good work!">>

generateFallbackResults(videoUri, type) ==
    [testType           |-> type,
     performanceMetrics |-> [repetitionCount |-> 0, movementQuality |-> 0,
                             performanceScore |-> 0],
     movementAnalysis   |-> [error |-> "Analysis failed"],
     cheatAnalysis      |-> [isSuspicious |-> FALSE, suspicionScore |-> Zero],
     benchmarking       |-> [error |-> "Benchmarking unavailable"],
     confidence         |-> 0,
     recommendations    |->
         <<"Please try recording again with better lighting and camera angle">>,
     fallback           |-> TRUE]

-----------------------------------------------------------------------------
(***************************************************************************)
(* OfflineAnalysisService: the simulated frames, the cache, the result     *)
(***************************************************************************)
\* extractFrames: for (let i = 0; i < 30; i++)
SimulatedFrameCount == 30

\* round(1000 * variation) at frame i, variation = Math.sin(i * 0.1) * 0.1
SimulatedVariation ==
    <<0, 10, 20, 30, 39, 48, 56, 64, 72, 78, 84, 89, 93, 96, 99, 100,
      100, 99, 97, 95, 91, 86, 81, 75, 68, 60, 52, 43, 33, 24>>

\* analyzePoses(extractFrames(videoUri)): every keypoint of the base pose is moved
\* by (variation, variation / 2), so the limbs stay straight (elbow and knee
\* angles of 180 degrees) and the centre of mass sways around 0.657.
SimulatedPoseData ==
    [k \in 1..SimulatedFrameCount |->
        Pose(k - 1, 180, 180, 657 + SimulatedVariation[k] \div 2, 600)]

\* Number to text, as JSON.stringify writes a non-negative integer.
DigitText == <<"0", "1", "2", "3", "4", "5", "6", "7", "8", "9">>
RECURSIVE NumberText(_)
NumberText(n) == IF n < 10 THEN DigitText[n + 1]
                 ELSE NumberText(n \div 10) \o DigitText[(n % 10) + 1]

\* JSON.stringify(userProfile), the age written before the gender
stringify(profile) ==
    LET age    == IF profile.hasAge THEN "\"age\":" \o NumberText(profile.age) ELSE ""
        gender == IF profile.gender # ""
                  THEN "\"gender\":\"" \o profile.gender \o "\"" ELSE ""
        comma  == IF profile.hasAge /\ profile.gender # "" THEN "," ELSE ""
    IN  "{" \o age \o comma \o gender \o "}"

\* `${videoUri}-${testType}-${JSON.stringify(userProfile)}`
cacheKey(videoUri, type, userProfile) ==
    videoUri \o "-" \o type \o "-" \o stringify(userProfile)

\* Map.has, Map.get, Map.set, Map.delete on a sequence of entries in insertion order
MapHas(map, key) == \E k \in 1..Len(map) : map[k].key = key
\* Mutant of MapGet: the oldest entry is returned whatever the key.
MapGet_first(map, key) == map[1].value

MapGet(map, key) == map[CHOOSE k \in 1..Len(map) : map[k].key = key].value
MapSet(map, key, value) ==
    IF MapHas(map, key)
    THEN [k \in 1..Len(map) |->
             IF map[k].key = key THEN [key |-> key, value |-> value] ELSE map[k]]
    ELSE Append(map, [key |-> key, value |-> value])
\* Mutant of MapDeleteFirst: the newest entry is removed instead of the oldest.
MapDeleteFirst_newest(map) == IF Len(map) = 0 THEN map ELSE SubSeq(map, 1, Len(map) - 1)

MapDeleteFirst(map) == IF Len(map) = 0 THEN map ELSE Tail(map)

\* this.maxCacheSize is 100 in the source; the model runs it scaled down so that
\* a full cache and an eviction are reached.
maxCacheSize == 2

setCache(map, key, value) ==
    MapSet(IF Len(map) >= maxCacheSize THEN MapDeleteFirst(map) ELSE map, key, value)

\* Step 7 of analyzeVideoOffline (the wall-clock timestamp and the constant
\* deviceInfo are left out).
compileResults(type, performanceMetrics, movementAnalysis, cheat, benchmarking) ==
    [testType           |-> type,
     performanceMetrics |-> performanceMetrics,
     movementAnalysis   |-> movementAnalysis,
     cheatAnalysis      |-> cheat,
     benchmarking       |-> benchmarking,
     confidence         |-> calculateConfidence(performanceMetrics, cheat),
     recommendations    |-> generateRecommendations(performanceMetrics, benchmarking)]

\* The catch of analyzeVideoOffline
errorResult(message, videoUri, type) ==
    [error           |-> TRUE,
     message         |-> message,
     fallbackResults |-> generateFallbackResults(videoUri, type)]

-----------------------------------------------------------------------------
(***************************************************************************)
(* Bounds and input domains                                                *)
(***************************************************************************)
MaxFrames == 4          \* longest pose sequence handed to analyzeMovement
MaxInvocations == 3     \* invocations started in one behaviour

\* Joint angles: 0 (read as 90), below 45, 60 and 120 themselves, above 120.
AngleValues == {0, 30, 60, 90, 120, 150}
\* Knee angles of a jump: a change of 30 degrees (> 20) or none.
JumpKneeValues == {90, 120}
\* Centre-of-mass heights: steps of 50, 100 (not > 100), 150, 200, 250 up or down.
ComValues == {0, 50, 150, 250}

\* The values of one frame that analyzeMovement reads for a test kind; the
\* other fields are those of the simulated pose (straight limbs).
FrameValues(type) ==
    IF type = "sit-ups"
    THEN {[knee |-> a, elbow |-> 180, comY |-> 650] : a \in AngleValues}
    ELSE IF type = "push-ups"
    THEN {[knee |-> 180, elbow |-> a, comY |-> 650] : a \in AngleValues}
    ELSE IF type = "vertical-jump"
    THEN {[knee |-> a, elbow |-> 180, comY |-> c] : a \in JumpKneeValues, c \in ComValues}
    ELSE {[knee |-> 180, elbow |-> 180, comY |-> 650]}

\* The pose sequence analyzePoses hands on for n frames with the values f.
PoseSequence(n, f) ==
    [k \in 1..n |-> Pose(k - 1, f[k].knee, f[k].elbow, f[k].comY, 600)]

\* Inputs of analyzeVideoOffline.  "a-vertical-jump" with "vertical-jump" and "a"
\* with "vertical-jump-vertical-jump" (not a supported kind) give the same cache key.
VideoUris == {"a", "b", "a-vertical-jump"}
TestTypes == {"vertical-jump", "sit-ups", "vertical-jump-vertical-jump"}
UserProfiles == {Profile(FALSE, 0, "")}

\* What Math.random lets steps 2..5 of detectCheatAttempts find on the 50 simulated
\* frames: brightness in [0.5, 1) has a variance below 0.0625, the timestamps are
\* evenly spaced and detectMultiplePeople always answers one person, so those three
\* checks never trigger; the other four depend on the draw.  Two draws are kept:
\* nothing found, and all four found.
RandomStepResults ==
    {StepResults(TRUE, TRUE, FALSE, FALSE, TRUE, FALSE, TRUE),
     StepResults(TRUE, TRUE, TRUE, TRUE, FALSE, FALSE, FALSE)}

MovementTestTypes == {"vertical-jump", "sit-ups", "push-ups", "shuttle-run"}

AllStepResults ==
    {StepResults(b, f, a, s, p, m, e) :
        b \in BOOLEAN, f \in BOOLEAN, a \in BOOLEAN, s \in BOOLEAN,
        p \in BOOLEAN, m \in BOOLEAN, e \in BOOLEAN}

\* Overall quality scores (thousandths): the fallback 0 and multiples of 0.025.
QualityValues == {0, 750, 775, 800, 825, 875, 1000}

-----------------------------------------------------------------------------
(***************************************************************************)
(* Idle values of the three groups of variables                            *)
(***************************************************************************)
\* Two invocations of analyzeVideoOffline may be in flight at once.
Slots == {1, 2}
Idle == [pc |-> "idle"]

ServiceIdle ==
    /\ isInitialized = FALSE
    /\ analysisCache = <<>>
    /\ calls = [c \in Slots |-> Idle]
    /\ invocations = 0

MovementIdle ==
    /\ poseData = <<>>
    /\ testType = "vertical-jump"
    /\ movement = Pending
    /\ performance = Pending
    /\ benchmark = Pending

\* A field that was never assigned.
Undefined == [undefined |-> TRUE]

\* The PerformanceOptimizer as its constructor leaves it, before initialize()
\* has got past its first await; batteryLevel is in hundredths.
Constructed ==
    [stage              |-> "constructed",
     optimizationLevel  |-> "medium",
     cacheSize          |-> 50,
     frameRate          |-> 30,
     resolution         |-> "medium",
     compressionQuality |-> Q08,
     isLowEndDevice     |-> FALSE,
     batteryLevel       |-> 100,
     memoryPressure     |-> FALSE,
     features           |-> Undefined,
     threw              |-> FALSE]

OptimizerIdle == optimizer = Constructed

SceneIdle ==
    /\ scene = <<>>
    /\ splicingDetection = Pending
    /\ externalAssistance = Pending
    /\ OptimizerIdle

CheckIdle ==
    /\ detailedScores = Pending
    /\ quality = Pending
    /\ frames = <<>>
    /\ brightnessConsistency = Pending
    /\ SceneIdle

IntegrityIdle ==
    /\ stepResults = StepResults(TRUE, TRUE, FALSE, FALSE, TRUE, FALSE, TRUE)
    /\ failingStep = 0
    /\ cheatAnalysis = Pending
    /\ movementQuality = 0
    /\ confidence = Pending

-----------------------------------------------------------------------------
(***************************************************************************)
(* MovementSpec: analyzeMovement applied to every pose sequence            *)
(***************************************************************************)
\* analyzeMovement, lines 335-336: identifyMovementPhases, countRepetitions
SegmentAndCount ==
    /\ IsPending(movement)
    /\ movement' = IF identifyMovementPhasesThrows(testType)
                   THEN analyzeMovement(poseData, testType)
                   ELSE [segmented         |-> TRUE,
                         keyMovementPhases |-> identifyMovementPhases(poseData, testType),
                         repetitionCount   |-> countRepetitions(poseData, testType)]
    /\ UNCHANGED <<poseData, testType, performance, benchmark,
                   serviceVars, integrityVars, checkVars>>

\* analyzeMovement, lines 337-341: assessMovementQuality, analyzeTiming, return
AssessAndReturn ==
    /\ "segmented" \in DOMAIN movement
    /\ movement' = analyzeMovement(poseData, testType)
    /\ UNCHANGED <<poseData, testType, performance, benchmark,
                   serviceVars, integrityVars, checkVars>>

\* calculatePerformance on the movement analysis that was returned
CalculatePerformanceMetrics ==
    /\ "movementQuality" \in DOMAIN movement
    /\ IsPending(performance)
    /\ performance' = calculatePerformance(movement, testType)
    /\ UNCHANGED <<poseData, testType, movement, benchmark, serviceVars, integrityVars, checkVars>>

MovementNext == SegmentAndCount \/ AssessAndReturn \/ CalculatePerformanceMetrics

-----------------------------------------------------------------------------
(***************************************************************************)
(* IntegritySpec: detectCheatAttempts applied to every outcome of its      *)
(* steps, and calculateConfidence applied to its result                    *)
(***************************************************************************)
DetectCheatAttempts ==
    /\ IsPending(cheatAnalysis)
    /\ cheatAnalysis' = detectCheatAttempts(stepResults, failingStep)
    /\ UNCHANGED <<stepResults, failingStep, movementQuality, confidence,
                   serviceVars, movementVars, checkVars>>

CalculateConfidence ==
    /\ ~IsPending(cheatAnalysis)
    /\ IsPending(confidence)
    /\ confidence' = [value |-> calculateConfidence(
                                    [movementQuality |-> movementQuality], cheatAnalysis)]
    /\ UNCHANGED <<stepResults, failingStep, cheatAnalysis, movementQuality,
                   serviceVars, movementVars, checkVars>>

IntegrityNext == DetectCheatAttempts \/ CalculateConfidence

-----------------------------------------------------------------------------
(***************************************************************************)
(* Spec: the service and its invocations of analyzeVideoOffline.  An       *)
(* invocation runs from one await to the next in one step; the steps of    *)
(* different invocations interleave.                                       *)
(***************************************************************************)
\* r with field name set to value
With(r, name, value) ==
    [x \in DOMAIN r \cup {name} |-> IF x = name THEN value ELSE r[x]]

\* return value: the invocation is over
Returned(call, value, how) ==
    With(With(With(call, "pc", "done"), "result", value), "via", how)

\* Mutant of Catch: the exception leaves analyzeVideoOffline.
Catch_rethrow(call, message) == With(With(call, "pc", "thrown"), "message", message)

\* throw inside the try block: control goes to the catch, which awaits
\* generateFallbackResults
Catch(call, message) == With(With(call, "pc", "catch"), "message", message)

\* Lines 118-133: from the cache check to the await of extractFrames
Enter(c, call) ==
    LET key == cacheKey(call.videoUri, call.testType, call.userProfile)
    IN  /\ IF MapHas(analysisCache, key)
           THEN calls' = [calls EXCEPT ![c] =
                             Returned(call, MapGet(analysisCache, key), "cache")]
           ELSE IF call.testType \notin supportedTests
           THEN calls' = [calls EXCEPT ![c] =
                             Catch(call, "Unsupported test type: " \o call.testType)]
           ELSE \E extracted \in BOOLEAN :
                    calls' = [calls EXCEPT ![c] =
                        IF extracted THEN With(call, "pc", "poses")
                        ELSE Catch(call, "Failed to extract frames from video")]
        /\ UNCHANGED analysisCache

\* analyzeVideoOffline(videoUri, testType, userProfile) is called; a slot whose
\* invocation has returned is taken again
Invoke(c) ==
    /\ calls[c].pc \in {"idle", "done"}
    /\ invocations < MaxInvocations
    /\ invocations' = invocations + 1
    /\ \E videoUri \in VideoUris, type \in TestTypes, userProfile \in UserProfiles :
          LET call == [pc |-> "entry", videoUri |-> videoUri, testType |-> type,
                       userProfile |-> userProfile]
          IN  IF isInitialized
              THEN Enter(c, call)
              ELSE /\ calls' = [calls EXCEPT ![c] = With(call, "pc", "initialize")]
                   /\ UNCHANGED analysisCache
    /\ UNCHANGED <<isInitialized, movementVars, integrityVars, checkVars>>

\* initialize() ends: the detector was created or the catch returned false
Initialize(c) ==
    /\ calls[c].pc = "initialize"
    /\ \E loaded \in BOOLEAN : isInitialized' = (isInitialized \/ loaded)
    /\ calls' = [calls EXCEPT ![c] = With(calls[c], "pc", "entry")]
    /\ UNCHANGED <<analysisCache, invocations, movementVars, integrityVars, checkVars>>

EnterAfterInitialize(c) ==
    /\ calls[c].pc = "entry"
    /\ Enter(c, calls[c])
    /\ UNCHANGED <<isInitialized, invocations, movementVars, integrityVars, checkVars>>

\* Step 2
AnalyzePoses(c) ==
    /\ calls[c].pc = "poses"
    /\ calls' = [calls EXCEPT ![c] = With(calls[c], "pc", "movement")]
    /\ UNCHANGED <<isInitialized, analysisCache, invocations, movementVars, integrityVars, checkVars>>

\* Step 3
AnalyzeMovement(c) ==
    /\ calls[c].pc = "movement"
    /\ LET movementAnalysis == analyzeMovement(SimulatedPoseData, calls[c].testType)
       IN  calls' = [calls EXCEPT ![c] =
               IF IsThrown(movementAnalysis)
               THEN Catch(calls[c], movementAnalysis.thrown)
               ELSE With(With(calls[c], "pc", "performance"),
                         "movementAnalysis", movementAnalysis)]
    /\ UNCHANGED <<isInitialized, analysisCache, invocations, movementVars, integrityVars, checkVars>>

\* Step 4
CalculatePerformance(c) ==
    /\ calls[c].pc = "performance"
    /\ calls' = [calls EXCEPT ![c] =
           With(With(calls[c], "pc", "cheat"), "performanceMetrics",
                calculatePerformance(calls[c].movementAnalysis, calls[c].testType))]
    /\ UNCHANGED <<isInitialized, analysisCache, invocations, movementVars, integrityVars, checkVars>>

\* Step 5: detectCheatAttempts on its own simulated frames
DetectCheat(c) ==
    /\ calls[c].pc = "cheat"
    /\ \E steps \in RandomStepResults :
          calls' = [calls EXCEPT ![c] =
              With(With(calls[c], "pc", "benchmark"), "cheatAnalysis",
                   detectCheatAttempts(steps, 0))]
    /\ UNCHANGED <<isInitialized, analysisCache, invocations, movementVars, integrityVars, checkVars>>

\* Step 6
PerformBenchmarking(c) ==
    /\ calls[c].pc = "benchmark"
    /\ calls' = [calls EXCEPT ![c] =
           With(With(calls[c], "pc", "compile"), "benchmarking",
                performBenchmarking(calls[c].performanceMetrics, calls[c].userProfile))]
    /\ UNCHANGED <<isInitialized, analysisCache, invocations, movementVars, integrityVars, checkVars>>

\* Step 7, up to the await of getDeviceInfo
Compile(c) ==
    /\ calls[c].pc = "compile"
    /\ calls' = [calls EXCEPT ![c] =
           With(With(calls[c], "pc", "store"), "results",
                compileResults(calls[c].testType, calls[c].performanceMetrics,
                               calls[c].movementAnalysis, calls[c].cheatAnalysis,
                               calls[c].benchmarking))]
    /\ UNCHANGED <<isInitialized, analysisCache, invocations, movementVars, integrityVars, checkVars>>

\* this.setCache(cacheKey, results); return results
StoreAndReturn(c) ==
    /\ calls[c].pc = "store"
    /\ analysisCache' = setCache(analysisCache,
                            cacheKey(calls[c].videoUri, calls[c].testType,
                                     calls[c].userProfile),
                            calls[c].results)
    /\ calls' = [calls EXCEPT ![c] = Returned(calls[c], calls[c].results, "computed")]
    /\ UNCHANGED <<isInitialized, invocations, movementVars, integrityVars, checkVars>>

\* Mutant of ReturnFallback: the error result is cached too.
ReturnFallback_cached(c) ==
    /\ calls[c].pc = "catch"
    /\ analysisCache' = setCache(analysisCache,
                            cacheKey(calls[c].videoUri, calls[c].testType,
                                     calls[c].userProfile),
                            errorResult(calls[c].message, calls[c].videoUri,
                                        calls[c].testType))
    /\ calls' = [calls EXCEPT ![c] =
           Returned(calls[c],
                    errorResult(calls[c].message, calls[c].videoUri, calls[c].testType),
                    "catch")]
    /\ UNCHANGED <<isInitialized, invocations, movementVars, integrityVars, checkVars>>

\* The catch block returns the error result
ReturnFallback(c) ==
    /\ calls[c].pc = "catch"
    /\ calls' = [calls EXCEPT ![c] =
           Returned(calls[c],
                    errorResult(calls[c].message, calls[c].videoUri, calls[c].testType),
                    "catch")]
    /\ UNCHANGED <<isInitialized, analysisCache, invocations, movementVars, integrityVars, checkVars>>

CallStep(c) ==
    \/ Initialize(c)
    \/ EnterAfterInitialize(c)
    \/ AnalyzePoses(c)
    \/ AnalyzeMovement(c)
    \/ CalculatePerformance(c)
    \/ DetectCheat(c)
    \/ PerformBenchmarking(c)
    \/ Compile(c)
    \/ StoreAndReturn(c)
    \/ ReturnFallback(c)

\* The caller gives up an invocation under way.  analyzeVideoOffline takes no
\* abort signal and the promise it returned cannot be cancelled: giving up
\* changes nothing in the service, it is only remembered here.
Abort(c) ==
    /\ calls[c].pc \notin {"idle", "done"}
    /\ "aborted" \notin DOMAIN calls[c]
    /\ calls' = [calls EXCEPT ![c] = With(calls[c], "aborted", TRUE)]
    /\ UNCHANGED <<isInitialized, analysisCache, invocations, movementVars, integrityVars, checkVars>>

Init == ServiceIdle /\ MovementIdle /\ IntegrityIdle /\ CheckIdle

Next == \E c \in Slots : Invoke(c) \/ CallStep(c)

Spec == Init /\ [][Next]_vars

\* One invocation at a time, which its caller may give up at any await.
AbortNext == Invoke(1) \/ CallStep(1) \/ Abort(1)

AbortSpec == Init /\ [][AbortNext]_vars

MovementInit ==
    /\ ServiceIdle
    /\ CheckIdle
    /\ IntegrityIdle
    /\ testType \in MovementTestTypes
    /\ \E n \in 0..MaxFrames :
           \E f \in [1..n -> FrameValues(testType)] : poseData = PoseSequence(n, f)
    /\ movement = Pending
    /\ performance = Pending
    /\ benchmark = Pending

MovementSpec == MovementInit /\ [][MovementNext]_vars

\* performBenchmarking applied to every score of a test kind; scores are in
\* tenths, from 0 to 100.0 in steps of 2.5, which holds every norm threshold.
ScoreValues == {25 * k : k \in 0..40}
BenchmarkProfiles == {Profile(FALSE, 0, ""), Profile(TRUE, 15, "female")}

PerformBenchmark ==
    /\ ~IsPending(performance)
    /\ IsPending(benchmark)
    /\ \E userProfile \in BenchmarkProfiles :
           benchmark' = performBenchmarking(performance, userProfile)
    /\ UNCHANGED <<poseData, testType, movement, performance, serviceVars, integrityVars, checkVars>>

BenchmarkInit ==
    /\ ServiceIdle
    /\ CheckIdle
    /\ IntegrityIdle
    /\ poseData = <<>>
    /\ movement = Pending
    /\ testType \in MovementTestTypes
    /\ \E score \in ScoreValues :
           performance = [testType |-> testType, performanceScore |-> score]
    /\ benchmark = Pending

BenchmarkSpec == BenchmarkInit /\ [][PerformBenchmark]_vars

\* The scores the four assessments of a test kind can return (thousandths).
\* assessPushUpForm is 1.0 less 0.1 for every pose off the line; its values 0.1
\* and 0.2 are left out, where the repeated subtraction is no multiple of 0.1.
DetailedScores(type) ==
    IF type = "sit-ups"
    THEN [form : {700, 1000}, consistency : {700, 1000},
          rangeOfMotion : {800, 1000}, timing : {800, 1000}]
    ELSE IF type = "push-ups"
    THEN [form : {0, 300, 400, 500, 600, 700, 800, 900, 1000}, consistency : {700, 1000},
          rangeOfMotion : {700, 1000}, timing : {800, 1000}]
    ELSE [form : {500, 1000}, consistency : {1000},
          rangeOfMotion : {1000}, timing : {800, 1000}]

\* assessMovementQuality, lines 480-486, on given scores
CombineScores ==
    /\ IsPending(quality)
    /\ quality' = overallQuality(detailedScores)
    /\ UNCHANGED <<detailedScores, frames, brightnessConsistency,
                   serviceVars, movementVars, integrityVars, sceneVars, optimizer>>

QualityInit ==
    /\ ServiceIdle
    /\ MovementIdle
    /\ IntegrityIdle
    /\ \E type \in {"sit-ups", "push-ups", "vertical-jump"} :
           detailedScores \in DetailedScores(type)
    /\ quality = Pending
    /\ frames = <<>>
    /\ brightnessConsistency = Pending
    /\ SceneIdle

QualitySpec == QualityInit /\ [][CombineScores]_vars

------------------------------------------------------------------------------
(***************************************************************************)
(* BrightnessSpec: checkBrightnessConsistency on given frames.  Brightness  *)
(* is held in hundredths and the mean and the variance as exact fractions;  *)
(* on the brightness values drawn here the doubles the code computes fall   *)
(* on the same side of 0.1 and of 0.3 as the exact values.                  *)
(***************************************************************************)
\* frame.data.brightness, in hundredths: some of the values
\* 0.5 + Math.random() * 0.5 of simulateFrameData
BrightnessValues == {50, 57, 64, 81, 99}

\* Frames per sequence (extractFramesFromVideo produces maxFrameHistory of them).
MaxBrightnessFrames == 3

\* calculateVariance(values, mean): the mean of the squared differences from
\* the average, as the fraction num / den
calculateVariance(values) ==
    LET n == Len(values)
        total == SeqSum(values)
        squaredDiffs == [i \in 1..n |-> (n * values[i] - total) * (n * values[i] - total)]
    IN  [num |-> SeqSum(squaredDiffs), den |-> n * n * n * 10000]

checkBrightnessConsistency(fs) ==
    LET brightnessValues == [i \in 1..Len(fs) |-> fs[i].data.brightness]
        n == Len(brightnessValues)
        total == SeqSum(brightnessValues)
        variance == calculateVariance(brightnessValues)
    IN  [isConsistent     |-> variance.num * 10 < variance.den,
         variance         |-> variance,
         avgBrightness    |-> [num |-> total, den |-> n * 100],
         suspiciousFrames |->
             Cardinality({i \in 1..n : Abs(n * brightnessValues[i] - total) > 30 * n})]

CheckBrightnessConsistency ==
    /\ IsPending(brightnessConsistency)
    /\ brightnessConsistency' = checkBrightnessConsistency(frames)
    /\ UNCHANGED <<detailedScores, quality, frames,
                   serviceVars, movementVars, integrityVars, sceneVars, optimizer>>

BrightnessInit ==
    /\ ServiceIdle
    /\ MovementIdle
    /\ IntegrityIdle
    /\ detailedScores = Pending
    /\ quality = Pending
    /\ \E n \in 1..MaxBrightnessFrames :
           \E b \in [1..n -> BrightnessValues] :
               frames = [i \in 1..n |-> [data |-> [brightness |-> b[i]]]]
    /\ brightnessConsistency = Pending
    /\ SceneIdle

BrightnessSpec == BrightnessInit /\ [][CheckBrightnessConsistency]_vars

------------------------------------------------------------------------------
(***************************************************************************)
(* SceneSpec: detectSplicing and checkExternalAssistance on given frames.   *)
(* scene holds, for each frame, the number of persons and the objects in    *)
(* view; the frame data of the code has no field for either.                *)
(***************************************************************************)
\* Frames per sequence.
MaxSceneFrames == 4

\* frame.data.brightness of these frames, in hundredths
SceneBrightness == {50, 99}

\* frame.data.colors.variance: some of the values Math.random() * 50
ColorVariances == {10, 40}

\* Who and what is in view in one frame.
SceneValues ==
    {[personCount |-> 1, objects |-> {}],
     [personCount |-> 2, objects |-> {}],
     [personCount |-> 1, objects |-> {"chair"}]}

\* detectSuddenChanges(values, threshold = 0.3); frame is the 0-based index i
detectSuddenChanges(values) ==
    LET changed == SelectSeq([k \in 1..Len(values) - 1 |-> k],
                             LAMBDA i : Abs(values[i + 1] - values[i]) > 30)
    IN  [k \in 1..Len(changed) |->
            [frame  |-> changed[k],
             change |-> Abs(values[changed[k] + 1] - values[changed[k]])]]

detectSplicing(fs) ==
    LET brightnessValues == [i \in 1..Len(fs) |-> fs[i].data.brightness]
        suddenChanges == detectSuddenChanges(brightnessValues)
    IN  [hasSplicing  |-> Len(suddenChanges) > 2,
         splicePoints |-> suddenChanges,
         confidence   |-> [num |-> Min(5, Len(suddenChanges)), den |-> 5]]

\* "For now, we'll simulate this check": the frames are not looked at.
detectMultiplePeople(fs) ==
    [hasMultiplePeople |-> FALSE, personCount |-> 1, confidence |-> 900]

detectSuspiciousObjects(fs) ==
    [hasSuspiciousObjects |-> FALSE, detectedObjects |-> <<>>, confidence |-> 800]

analyzeAudioForAssistance ==
    [hasExternalAudio |-> FALSE, audioAnalysis |-> "clear", confidence |-> 700]

checkEnvironmentConsistency(fs) ==
    LET colorVariances == [i \in 1..Len(fs) |-> fs[i].data.colors.variance]
        n == Len(colorVariances)
        total == SeqSum(colorVariances)
    IN  [isConsistent |-> total < 30 * n,
         avgVariance  |-> [num |-> total, den |-> n],
         confidence   |-> [num |-> Max(0, 50 * n - total), den |-> 50 * n]]

checkExternalAssistance(fs) ==
    [multiplePeople           |-> detectMultiplePeople(fs),
     objectDetection          |-> detectSuspiciousObjects(fs),
     audioAnalysis            |-> analyzeAudioForAssistance,
     environmentalConsistency |-> checkEnvironmentConsistency(fs)]

DetectSplicing ==
    /\ IsPending(splicingDetection)
    /\ splicingDetection' = detectSplicing(frames)
    /\ UNCHANGED <<detailedScores, quality, frames, brightnessConsistency, scene,
                   externalAssistance, optimizer, serviceVars, movementVars, integrityVars>>

CheckExternalAssistance ==
    /\ IsPending(externalAssistance)
    /\ externalAssistance' = checkExternalAssistance(frames)
    /\ UNCHANGED <<detailedScores, quality, frames, brightnessConsistency, scene,
                   splicingDetection, optimizer, serviceVars, movementVars, integrityVars>>

SceneNext == DetectSplicing \/ CheckExternalAssistance

SceneInit ==
    /\ ServiceIdle
    /\ MovementIdle
    /\ IntegrityIdle
    /\ detailedScores = Pending
    /\ quality = Pending
    /\ brightnessConsistency = Pending
    /\ \E n \in 1..MaxSceneFrames :
           \E b \in [1..n -> SceneBrightness], v \in ColorVariances :
               frames = [i \in 1..n |->
                            [data |-> [brightness |-> b[i], colors |-> [variance |-> v]]]]
    /\ scene \in [1..Len(frames) -> SceneValues]
    /\ splicingDetection = Pending
    /\ externalAssistance = Pending
    /\ OptimizerIdle

SceneSpec == SceneInit /\ [][SceneNext]_vars

------------------------------------------------------------------------------
(***************************************************************************)
(* OptimizerSpec: the PerformanceOptimizer singleton.  initialize() runs    *)
(* once; afterwards only the two monitoring timers act on it.               *)
(***************************************************************************)
\* What DeviceInfo, Platform and Dimensions may report: memory in MB.
DeviceSpecs ==
    [totalMemory : {1024, 3072, 6144},
     platform    : {"android", "ios"},
     version     : {27, 30},
     screenSize  : {[width |-> 320, height |-> 568], [width |-> 390, height |-> 844]}]

\* Battery levels DeviceInfo.getBatteryLevel may report, in hundredths.
BatteryLevels == {10, 20, 30, 50, 70}

isDeviceLowEnd(specs) ==
    LET isLowMemory   == specs.totalMemory < 2048
        isOldAndroid  == specs.platform = "android" /\ specs.version < 28
        isSmallScreen == specs.screenSize.width < 360 \/ specs.screenSize.height < 640
    IN  isLowMemory \/ isOldAndroid \/ isSmallScreen

determineOptimizationLevel(o, specs) ==
    IF o.isLowEndDevice THEN "high"
    ELSE IF specs.totalMemory > 4096 THEN "low"
    ELSE "medium"

\* features, as far as the optimizer writes it later
Features(background) == [backgroundProcessing |-> background]

applyHighOptimizations(o) ==
    [o EXCEPT !.cacheSize = 20, !.frameRate = 15, !.resolution = "low",
              !.compressionQuality = Q06, !.features = Features(FALSE)]

applyMediumOptimizations(o) ==
    [o EXCEPT !.cacheSize = 50, !.frameRate = 24, !.resolution = "medium",
              !.compressionQuality = Q08, !.features = Features(TRUE)]

applyLowOptimizations(o) ==
    [o EXCEPT !.cacheSize = 100, !.frameRate = 30, !.resolution = "high",
              !.compressionQuality = Q09, !.features = Features(TRUE)]

setupOptimizationStrategy(o) ==
    IF o.optimizationLevel = "high" THEN applyHighOptimizations(o)
    ELSE IF o.optimizationLevel = "medium" THEN applyMediumOptimizations(o)
    ELSE applyLowOptimizations(o)

\* analyzeDeviceCapabilities: failed says that a DeviceInfo call rejected
analyzeDeviceCapabilities(o, specs, failed) ==
    IF failed
    THEN [o EXCEPT !.isLowEndDevice = TRUE, !.optimizationLevel = "high"]
    ELSE LET o1 == [o EXCEPT !.isLowEndDevice = isDeviceLowEnd(specs)]
         IN  [o1 EXCEPT !.optimizationLevel = determineOptimizationLevel(o1, specs)]

\* Mutant of reduceMemoryUsage: the cache size is left as it was.
reduceMemoryUsage_keepCache(o) ==
    [o EXCEPT !.compressionQuality = FMax(Q05, FSub(o.compressionQuality, W010))]

reduceMemoryUsage(o) ==
    [o EXCEPT !.cacheSize = Max(10, o.cacheSize - 10),
              !.compressionQuality = FMax(Q05, FSub(o.compressionQuality, W010))]

\* this.features.backgroundProcessing = false throws when features was never set
disableBackgroundProcessing(o) ==
    IF o.features = Undefined THEN [o EXCEPT !.threw = TRUE]
    ELSE [o EXCEPT !.features = Features(FALSE)]

applyBatteryOptimizations(o) ==
    disableBackgroundProcessing([o EXCEPT !.frameRate = Max(10, o.frameRate - 5)])

applyModerateBatteryOptimizations(o) ==
    [o EXCEPT !.frameRate = Max(15, o.frameRate - 3)]

\* initialize(): the timers are set up last
InitializeOptimizer ==
    /\ optimizer.stage = "constructed"
    /\ \E specs \in DeviceSpecs, failed \in BOOLEAN :
           optimizer' = [setupOptimizationStrategy(
                             analyzeDeviceCapabilities(optimizer, specs, failed))
                         EXCEPT !.stage = "monitoring"]
    /\ UNCHANGED <<detailedScores, quality, frames, brightnessConsistency,
                   serviceVars, movementVars, integrityVars, sceneVars>>

\* the memory timer fires
CheckMemoryPressure ==
    /\ optimizer.stage = "monitoring"
    /\ optimizer' = IF optimizer.isLowEndDevice
                    THEN reduceMemoryUsage([optimizer EXCEPT !.memoryPressure = TRUE])
                    ELSE optimizer
    /\ UNCHANGED <<detailedScores, quality, frames, brightnessConsistency,
                   serviceVars, movementVars, integrityVars, sceneVars>>

\* the battery timer fires and getBatteryLevel resolves with level
CheckBatteryLevel ==
    /\ optimizer.stage = "monitoring"
    /\ \E level \in BatteryLevels :
           LET o == [optimizer EXCEPT !.batteryLevel = level]
           IN  optimizer' = IF level < 20 THEN applyBatteryOptimizations(o)
                            ELSE IF level < 50 THEN applyModerateBatteryOptimizations(o)
                            ELSE o
    /\ UNCHANGED <<detailedScores, quality, frames, brightnessConsistency,
                   serviceVars, movementVars, integrityVars, sceneVars>>

OptimizerNext == InitializeOptimizer \/ CheckMemoryPressure \/ CheckBatteryLevel

OptimizerInit ==
    /\ ServiceIdle
    /\ MovementIdle
    /\ IntegrityIdle
    /\ CheckIdle

OptimizerSpec == OptimizerInit /\ [][OptimizerNext]_vars

IntegrityInit ==
    /\ ServiceIdle
    /\ CheckIdle
    /\ MovementIdle
    /\ stepResults \in AllStepResults
    /\ failingStep \in 0..5
    /\ movementQuality \in QualityValues
    /\ cheatAnalysis = Pending
    /\ confidence = Pending

IntegritySpec == IntegrityInit /\ [][IntegrityNext]_vars

-----------------------------------------------------------------------------
(***************************************************************************)
(* Properties                                                              *)
(***************************************************************************)
\* The segmenter has run on poseData.
Segmented == "keyMovementPhases" \in DOMAIN movement

Cyclic == testType \in {"sit-ups", "push-ups"}

\* The phases whose [startFrame, endFrame] interval holds frame f.
PhasesHolding(phases, f) ==
    {k \in 1..Len(phases) : phases[k].startFrame <= f /\ f <= phases[k].endFrame}

\* C1: the phases returned by identifyMovementPhases partition the frame indices:
\* every frame 0..n-1 lies in exactly one phase's [startFrame, endFrame].
C1_PhasesPartitionFrames ==
    Segmented =>
        \A f \in 0..(Len(poseData) - 1) :
            Cardinality(PhasesHolding(movement.keyMovementPhases, f)) = 1

\* The number of complete cycles of a phase list: a "down" phase directly
\* followed by an "up" phase, no phase taken twice.
RECURSIVE CompleteCycles(_)
CompleteCycles(phases) ==
    IF Len(phases) < 2 THEN 0
    ELSE IF phases[1].phase = "down" /\ phases[2].phase = "up"
    THEN 1 + CompleteCycles(Tail(Tail(phases)))
    ELSE CompleteCycles(Tail(phases))

\* C2: for sit-ups and push-ups the repetition count is the number of complete
\* down-up cycles of the segmented phases; an unmatched last phase adds nothing.
C2_CountIsCompleteCycles ==
    (Segmented /\ Cyclic) =>
        /\ movement.repetitionCount = CompleteCycles(movement.keyMovementPhases)
        /\ Len(movement.keyMovementPhases) % 2 = 1 =>
               2 * movement.repetitionCount = Len(movement.keyMovementPhases) - 1

C2_Witness ==
    /\ Segmented
    /\ Cyclic
    /\ Len(movement.keyMovementPhases) = 3
    /\ movement.repetitionCount = 1

\* The sum, in hundredths, of the weights of the checks that triggered.
WeightSum(steps) ==
      (IF ~steps.frameAnalysis.brightnessConsistency.isConsistent THEN 15 ELSE 0)
    + (IF ~steps.frameAnalysis.frameRateConsistency.isConsistent THEN 10 ELSE 0)
    + (IF steps.manipulationCheck.compressionArtifacts.hasArtifacts THEN 20 ELSE 0)
    + (IF steps.manipulationCheck.splicingDetection.hasSplicing THEN 30 ELSE 0)
    + (IF ~steps.movementPatternAnalysis.patternConsistency.isConsistent THEN 15 ELSE 0)
    + (IF steps.assistanceCheck.multiplePeople.hasMultiplePeople THEN 25 ELSE 0)
    + (IF ~steps.assistanceCheck.environmentalConsistency.isConsistent THEN 10 ELSE 0)

Detected == ~IsPending(cheatAnalysis)

\* C3: the suspicion score of combineAnalysisResults is the sum of the weights of
\* the triggered checks clamped to [0, 1]: to the hundredth it is min(1, sum), it
\* is never below 0 nor above 1, and it is exactly 1 once the sum exceeds 1.
C3_ScoreIsClampedWeightSum ==
    (Detected /\ failingStep = 0) =>
        /\ Hundredths(cheatAnalysis.suspicionScore)
               = (IF WeightSum(stepResults) > 100 THEN 100 ELSE WeightSum(stepResults))
        /\ ~FGt(cheatAnalysis.suspicionScore, One)
        /\ ~FGt(Zero, cheatAnalysis.suspicionScore)
        /\ WeightSum(stepResults) > 100 => cheatAnalysis.suspicionScore = One

C3_Witness ==
    /\ Detected
    /\ failingStep = 0
    /\ WeightSum(stepResults) = 125
    /\ cheatAnalysis.suspicionScore = One

\* C4 as claimed: in every result of detectCheatAttempts the score is 0 exactly
\* when the result reports no detected issue.
C4_ZeroIffNoIssueReported ==
    Detected => (cheatAnalysis.suspicionScore = Zero <=> cheatAnalysis.detectedIssues = <<>>)

\* C4 amended: the score is 0 exactly when no check triggered; on the normal path
\* that is exactly when no issue is reported, and on the internal-error path the
\* score is 0 while the result reports the one issue "Analysis failed".
C4_ZeroIffNoCheckTriggered ==
    Detected =>
        IF failingStep = 0
        THEN /\ cheatAnalysis.suspicionScore = Zero <=> WeightSum(stepResults) = 0
             /\ cheatAnalysis.suspicionScore = Zero <=> cheatAnalysis.detectedIssues = <<>>
        ELSE /\ cheatAnalysis.suspicionScore = Zero
             /\ cheatAnalysis.detectedIssues = <<"Analysis failed">>

C4_Witness ==
    /\ Detected
    /\ failingStep # 0
    /\ cheatAnalysis.suspicionScore = Zero
    /\ Len(cheatAnalysis.detectedIssues) = 1

\* C5: isSuspicious is true exactly when the score is strictly above the
\* threshold 0.7; a score equal to the threshold is not suspicious.
C5_SuspiciousIffAboveThreshold ==
    Detected =>
        /\ cheatAnalysis.isSuspicious <=> FGt(cheatAnalysis.suspicionScore, cheatThreshold)
        /\ cheatAnalysis.suspicionScore = cheatThreshold => ~cheatAnalysis.isSuspicious

C5_Witness ==
    /\ Detected
    /\ failingStep = 0
    /\ cheatAnalysis.suspicionScore = cheatThreshold
    /\ ~cheatAnalysis.isSuspicious

Confident == ~IsPending(confidence)

\* The confidence for the four cases of (isSuspicious, quality bonus).
ConfidenceTable(suspicious, bonus) ==
    IF suspicious THEN (IF bonus THEN 600 ELSE 500)
    ELSE (IF bonus THEN 900 ELSE 800)

\* C10 as claimed: confidence is 0.8, minus 0.3 when suspicious, plus 0.1 when
\* the overall quality is greater than or equal to 0.8.
C10_BonusFromQuality800 ==
    Confident =>
        confidence.value = ConfidenceTable(cheatAnalysis.isSuspicious, movementQuality >= 800)

\* C10 amended: the 0.1 is added only when the overall quality is strictly
\* greater than 0.8; at 0.8 itself there is no bonus.
C10_BonusAboveQuality800 ==
    Confident =>
        /\ confidence.value = ConfidenceTable(cheatAnalysis.isSuspicious, movementQuality > 800)
        /\ confidence.value >= 0
        /\ confidence.value <= 1000

C10_Witness ==
    /\ Confident
    /\ movementQuality = 800
    /\ cheatAnalysis.isSuspicious
    /\ confidence.value = 500

\* C7: a sequence of fewer than 10 frames is segmented into exactly one phase,
\* of kind unknown, spanning all frames.
C7_ShortSequenceIsOneUnknownPhase ==
    (Segmented /\ Len(poseData) < 10) =>
        /\ Len(movement.keyMovementPhases) = 1
        /\ movement.keyMovementPhases[1].phase = "unknown"
        /\ movement.keyMovementPhases[1].startFrame = 0
        /\ movement.keyMovementPhases[1].endFrame = Len(poseData) - 1

Done(c) == calls[c].pc = "done"
InFlight(c) == calls[c].pc \notin {"idle", "done"}

\* A result as the caller sees it: the compiled results, or the error object
\* with its fallback results.
IsStructured(r) ==
    IF "error" \in DOMAIN r
    THEN /\ r.error = TRUE
         /\ {"message", "fallbackResults"} \subseteq DOMAIN r
         /\ r.fallbackResults.fallback = TRUE
    ELSE {"testType", "performanceMetrics", "movementAnalysis", "cheatAnalysis",
          "benchmarking", "confidence", "recommendations"} \subseteq DOMAIN r

\* The awaits inside the try block of analyzeVideoOffline.
TryLabels == {"initialize", "entry", "poses", "movement", "performance", "cheat",
              "benchmark", "compile", "store"}

\* C6: every invocation of analyzeVideoOffline ends by returning a structured
\* result, whatever stage fails: no exception leaves it, an invocation under way
\* is inside the try block or its catch, and a failure is returned as the error
\* object carrying the exception's message.
C6_AlwaysReturnsStructuredResult ==
    \A c \in Slots :
        /\ calls[c].pc # "thrown"
        /\ Done(c) => IsStructured(calls[c].result)
        /\ InFlight(c) => calls[c].pc \in TryLabels \cup {"catch"}
        /\ (Done(c) /\ calls[c].via = "catch") =>
               /\ "error" \in DOMAIN calls[c].result
               /\ calls[c].result.message = calls[c].message

C6_Witness ==
    \E c \in Slots :
        /\ Done(c)
        /\ calls[c].via = "catch"
        /\ calls[c].testType = "sit-ups"
        /\ calls[c].result.error = TRUE

\* The integrity assessment a result carries.
IntegrityOf(r) ==
    IF "error" \in DOMAIN r THEN r.fallbackResults.cheatAnalysis ELSE r.cheatAnalysis

\* C8: for a supported test kind the returned result carries the assessment
\* detectCheatAttempts computed, also when the movement analysis failed.
C8_IntegrityAssessmentAlwaysComputed ==
    \A c \in Slots :
        (Done(c) /\ calls[c].testType \in supportedTests) =>
            "detectedIssues" \in DOMAIN IntegrityOf(calls[c].result)

SameInput(c, d) ==
    /\ calls[c].videoUri = calls[d].videoUri
    /\ calls[c].testType = calls[d].testType
    /\ calls[c].userProfile = calls[d].userProfile

CrossingAt(pd, type, name, i) ==
    IF type = "vertical-jump"
    THEN /\ i >= 1
         /\ IF name = "crouch" THEN getKneeAngleChange(pd[i], pd[i + 1]) > 20
            ELSE IF name = "jump" THEN getCenterOfMassChange(pd[i], pd[i + 1]) > 100
            ELSE getCenterOfMassChange(pd[i], pd[i + 1]) < -50
    ELSE LET angle == OrDefault90(IF type = "sit-ups"
                                  THEN pd[i + 1].bodyAngles.leftKnee
                                  ELSE pd[i + 1].bodyAngles.leftElbow)
         IN  IF name = "down" THEN angle < 60 ELSE angle > 120

\* C11: a transition is committed only when its crossing condition has held on
\* a run of 3 consecutive frames (the debounce window) that holds the frame the
\* phase ends at; a crossing of one or two frames produces no phase.
C11_TransitionNeedsDebouncedCrossing ==
    Segmented =>
        \A k \in 1..Len(movement.keyMovementPhases) :
            LET p == movement.keyMovementPhases[k]
            IN  \E s \in (p.endFrame - 2)..p.endFrame :
                    /\ s >= 0
                    /\ s + 2 <= Len(poseData) - 1
                    /\ \A j \in s..(s + 2) : CrossingAt(poseData, testType, p.phase, j)

\* Windows [minCycleMs, maxCycleMs] a caller may configure: one that rejects the
\* cycle of two frame intervals (200 ms) as too fast, one that rejects the cycle
\* of three frame intervals (300 ms) as too slow.
CycleWindows == {[minCycleMs |-> 250, maxCycleMs |-> 5000],
                 [minCycleMs |-> 100, maxCycleMs |-> 250]}

\* The complete down-up cycles whose combined duration lies in the window w.
RECURSIVE CyclesWithin(_, _)
CyclesWithin(phases, w) ==
    IF Len(phases) < 2 THEN 0
    ELSE IF phases[1].phase = "down" /\ phases[2].phase = "up"
    THEN (IF /\ phases[1].duration + phases[2].duration >= w.minCycleMs
             /\ phases[1].duration + phases[2].duration <= w.maxCycleMs
          THEN 1 ELSE 0) + CyclesWithin(Tail(Tail(phases)), w)
    ELSE CyclesWithin(Tail(phases), w)

\* C12: for sit-ups and push-ups the repetition count holds only the cycles whose
\* combined duration lies in [minCycleMs, maxCycleMs], whichever window is set:
\* a cycle that is too fast or too slow is not counted.
C12_OnlyCyclesWithinWindowCount ==
    (Segmented /\ Cyclic) =>
        \A w \in CycleWindows :
            movement.repetitionCount = CyclesWithin(movement.keyMovementPhases, w)

Computed == ~IsPending(performance)

\* The output names a single-event metric.
HasEventMetric(metrics) == "jumpHeight" \in DOMAIN metrics.keyMetrics

\* C13 as claimed: the output of the counter carries a repetition count or a
\* single-event metric, never both: a count and no metric for sit-ups and
\* push-ups, a metric and no count for the vertical jump.
C13_CountOrMetricNeverBoth ==
    Computed =>
        /\ ~("repetitionCount" \in DOMAIN performance /\ HasEventMetric(performance))
        /\ Cyclic => ("repetitionCount" \in DOMAIN performance /\ ~HasEventMetric(performance))
        /\ testType = "vertical-jump" =>
               ("repetitionCount" \notin DOMAIN performance /\ HasEventMetric(performance))

\* C13 amended: the output always carries an integer repetition count, the number
\* of complete cycles for sit-ups and push-ups and the constant 1 for every other
\* kind; the vertical jump carries the metrics jumpHeight and hangTime besides,
\* sit-ups and push-ups carry no single-event metric.
C13_CountAlwaysMetricForJump ==
    Computed =>
        /\ performance.repetitionCount \in Nat
        /\ Cyclic =>
               /\ performance.repetitionCount = CompleteCycles(movement.keyMovementPhases)
               /\ ~HasEventMetric(performance)
        /\ ~Cyclic =>
               /\ performance.repetitionCount = 1
               /\ testType = "vertical-jump" =>
                      {"jumpHeight", "hangTime"} \subseteq DOMAIN performance.keyMetrics

C13_Witness ==
    /\ Computed
    /\ testType = "vertical-jump"
    /\ HasJumpPhase(movement.keyMovementPhases)
    /\ performance.repetitionCount = 1
    /\ performance.keyMetrics.jumpHeight # 30

\* C14: an invocation with a test kind outside supportedTests is rejected before
\* any processing: it ends in the catch with the message of the validation, no
\* cached result is returned for it and none of the steps 1 to 7 has run for it.
C14_UnsupportedKindRejectedFirst ==
    \A c \in Slots :
        (calls[c].pc # "idle" /\ calls[c].testType \notin supportedTests) =>
            /\ calls[c].pc \in {"initialize", "entry", "catch", "done"}
            /\ Done(c) =>
                   /\ calls[c].via = "catch"
                   /\ calls[c].result.message = "Unsupported test type: " \o calls[c].testType

\* C15: a result whose movement analysis identified no phase is degraded: its
\* confidence is 0 and it reports no repetition count, no performance score and
\* no single-event metric other than 0.
C15_NoPhaseNoFabricatedValue ==
    \A c \in Slots :
        (/\ Done(c)
         /\ "error" \notin DOMAIN calls[c].result
         /\ calls[c].result.movementAnalysis.keyMovementPhases = <<>>) =>
            /\ calls[c].result.confidence = 0
            /\ calls[c].result.performanceMetrics.repetitionCount = 0
            /\ calls[c].result.performanceMetrics.performanceScore = 0
            /\ ~HasEventMetric(calls[c].result.performanceMetrics)

\* C16: an invocation the caller has aborted produces no result at all, neither
\* the compiled results nor the error object with the fallback results, and so
\* stores nothing in the cache.
C16_AbortedInvocationYieldsNothing ==
    \A c \in Slots : "aborted" \in DOMAIN calls[c] => ~Done(c)

Benchmarked == ~IsPending(benchmark)

\* The tiers of a norm table from the lowest threshold up.
Tiers == <<"poor", "average", "good", "excellent">>

\* The percentile a tier starts at.  The source defines none; these are the
\* ones its sit-ups table yields at the four thresholds (in hundredths).
TierPercentile ==
    [poor |-> 2500, average |-> 5000, good |-> 7500, excellent |-> 10000]

\* The rating of a tier; the lowest tier is reported as needs-improvement.
TierRating(tier) == IF tier = "poor" THEN "needs-improvement" ELSE tier

\* Linear interpolation between the percentiles of tier k and tier k + 1.
Interpolated(score, norms, k) ==
    LET lo == 10 * norms[Tiers[k]]
        hi == 10 * norms[Tiers[k + 1]]
    IN  TierPercentile[Tiers[k]]
          + ((score - lo) * (TierPercentile[Tiers[k + 1]] - TierPercentile[Tiers[k]])) \div (hi - lo)

Labelled == ~IsPending(quality)

\* C18 as claimed: the band is excellent from 0.90, good from 0.75, average from
\* 0.50 and needs-improvement below, each lower boundary in the higher band.
C18_BandsAt900And750And500 ==
    Labelled =>
        quality.quality = (IF quality.overallScore >= 900 THEN "excellent"
                           ELSE IF quality.overallScore >= 750 THEN "good"
                           ELSE IF quality.overallScore >= 500 THEN "average"
                           ELSE "needs-improvement")

\* C18 amended: the band is excellent above 0.8, good above 0.6 up to 0.8 and
\* needs-improvement up to 0.6; there is no band average, and a score equal to
\* a threshold belongs to the lower band.
C18_BandsAbove800And600 ==
    Labelled =>
        /\ quality.quality \in {"excellent", "good", "needs-improvement"}
        /\ quality.quality = "excellent" <=> quality.overallScore > 800
        /\ quality.quality = "good" <=>
               (quality.overallScore > 600 /\ quality.overallScore <= 800)
        /\ quality.quality = "needs-improvement" <=> quality.overallScore <= 600
        /\ 4 * quality.overallScore =
               detailedScores.form + detailedScores.consistency
                 + detailedScores.rangeOfMotion + detailedScores.timing

C18_Witness ==
    /\ Labelled
    /\ quality.overallScore = 800
    /\ quality.quality = "good"

\* The seven checks in the order combineAnalysisResults looks at them, each with
\* its issue and its remediation.
CheckTable ==
    <<[issue |-> "Inconsistent lighting detected",
       recommendation |-> "Ensure consistent lighting throughout the recording"],
      [issue |-> "Frame rate inconsistencies detected",
       recommendation |-> "Record in a single continuous take"],
      [issue |-> "Video compression artifacts detected",
       recommendation |-> "Avoid editing or re-compressing the video"],
      [issue |-> "Video splicing detected",
       recommendation |-> "Record the entire test in one continuous take"],
      [issue |-> "Movement pattern inconsistencies",
       recommendation |-> "Follow the test instructions carefully"],
      [issue |-> "Multiple people detected in video",
       recommendation |-> "Ensure only the test taker is visible"],
      [issue |-> "Environment inconsistencies detected",
       recommendation |-> "Record in a single location"]>>

\* Which of the seven checks triggered, in that order.
TriggeredChecks(steps) ==
    <<~steps.frameAnalysis.brightnessConsistency.isConsistent,
      ~steps.frameAnalysis.frameRateConsistency.isConsistent,
      steps.manipulationCheck.compressionArtifacts.hasArtifacts,
      steps.manipulationCheck.splicingDetection.hasSplicing,
      ~steps.movementPatternAnalysis.patternConsistency.isConsistent,
      steps.assistanceCheck.multiplePeople.hasMultiplePeople,
      ~steps.assistanceCheck.environmentalConsistency.isConsistent>>

\* The table entries of the triggered checks, in order.
TriggeredEntries(steps) ==
    LET IsTriggered(k) == TriggeredChecks(steps)[k]
        indices == SelectSeq(<<1, 2, 3, 4, 5, 6, 7>>, IsTriggered)
    IN  [k \in 1..Len(indices) |-> CheckTable[indices[k]]]

\* C19 as claimed: for every combination of check outcomes the output lists one
\* issue and one recommendation per triggered check, in the order of the checks,
\* and none for a check that did not trigger.
C19_OneIssueAndRemedyPerTriggeredCheck ==
    (Detected /\ failingStep = 0) =>
        LET entries == TriggeredEntries(stepResults)
        IN  /\ cheatAnalysis.detectedIssues = [k \in 1..Len(entries) |-> entries[k].issue]
            /\ cheatAnalysis.recommendations =
                   [k \in 1..Len(entries) |-> entries[k].recommendation]

\* C19 amended: the same whenever at least one check triggered; when no check
\* triggered the output lists no issue and the one recommendation
\* "Video analysis completed successfully".
C19_OnePerTriggeredCheckOrAllClear ==
    (Detected /\ failingStep = 0) =>
        LET entries == TriggeredEntries(stepResults)
        IN  /\ cheatAnalysis.detectedIssues = [k \in 1..Len(entries) |-> entries[k].issue]
            /\ Len(entries) > 0 =>
                   cheatAnalysis.recommendations =
                       [k \in 1..Len(entries) |-> entries[k].recommendation]
            /\ Len(entries) = 0 =>
                   cheatAnalysis.recommendations = <<"Video analysis completed successfully">>

C19_Witness ==
    /\ Detected
    /\ failingStep = 0
    /\ Len(TriggeredEntries(stepResults)) = 3
    /\ Len(cheatAnalysis.detectedIssues) = 3
    /\ Len(cheatAnalysis.recommendations) = 3
    /\ cheatAnalysis.detectedIssues[1] = "Frame rate inconsistencies detected"

\* checkBrightnessConsistency has run on frames.
BrightnessChecked == ~IsPending(brightnessConsistency)

\* The variance of the brightness of frames exceeds 0.1.
VarianceExceeds ==
    LET n == Len(frames)
        total == SeqSum([i \in 1..n |-> frames[i].data.brightness])
    IN  10 * SeqSum([i \in 1..n |-> (n * frames[i].data.brightness - total)
                                        * (n * frames[i].data.brightness - total)])
            > 10000 * n * n * n

\* Some frame of frames deviates by more than 0.3 from the mean brightness.
OutlierFrame ==
    LET n == Len(frames)
        total == SeqSum([i \in 1..n |-> frames[i].data.brightness])
    IN  \E i \in 1..n : Abs(n * frames[i].data.brightness - total) > 30 * n

\* The suspicion score of an analysis whose other six checks are clean.
BrightnessScore ==
    combineAnalysisResults(
        [brightnessConsistency |-> brightnessConsistency,
         frameRateConsistency  |-> [isConsistent |-> TRUE]],
        [compressionArtifacts  |-> [hasArtifacts |-> FALSE],
         splicingDetection     |-> [hasSplicing |-> FALSE]],
        [patternConsistency    |-> [isConsistent |-> TRUE]],
        [multiplePeople           |-> [hasMultiplePeople |-> FALSE],
         environmentalConsistency |-> [isConsistent |-> TRUE]]).suspicionScore

\* C20 as claimed: the brightness check triggers, adding 0.15 to the score, if
\* the variance of the frame brightness exceeds 0.1 or if some frame deviates by
\* more than 0.3 from the mean; an outlier frame triggers it even when the
\* variance is below 0.1.
C20_TriggersOnVarianceOrOutlierFrame ==
    BrightnessChecked =>
        /\ (VarianceExceeds \/ OutlierFrame) => ~brightnessConsistency.isConsistent
        /\ (VarianceExceeds \/ OutlierFrame) => BrightnessScore = W015

\* checkExternalAssistance has run on frames.
AssistanceChecked == ~IsPending(externalAssistance)

\* Some frame shows more than one person.
SecondPersonInView == \E i \in 1..Len(scene) : scene[i].personCount > 1

\* Some frame shows a disallowed object.
ObjectInView == \E i \in 1..Len(scene) : scene[i].objects # {}

\* The suspicion score of an analysis with the given splice and assistance
\* results whose other checks are clean.
SceneScore(manipulation, assistance) ==
    combineAnalysisResults(
        [brightnessConsistency |-> [isConsistent |-> TRUE],
         frameRateConsistency  |-> [isConsistent |-> TRUE]],
        [compressionArtifacts  |-> [hasArtifacts |-> FALSE],
         splicingDetection     |-> manipulation],
        [patternConsistency    |-> [isConsistent |-> TRUE]],
        [multiplePeople           |-> assistance.multiplePeople,
         environmentalConsistency |-> [isConsistent |-> TRUE]]).suspicionScore

\* C21 as claimed: the multi-person/foreign-object check triggers, adding 0.25
\* to the score, whenever some sampled frame shows more than one person, and
\* also whenever some sampled frame shows a disallowed object, even with a
\* single person present.
C21_TriggersOnSecondPersonOrObject ==
    (AssistanceChecked /\ (SecondPersonInView \/ ObjectInView)) =>
        /\ externalAssistance.multiplePeople.hasMultiplePeople
           \/ externalAssistance.objectDetection.hasSuspiciousObjects
        /\ SceneScore([hasSplicing |-> FALSE], externalAssistance) = W025

\* detectSplicing and checkExternalAssistance have both run on frames.
SceneChecked == ~IsPending(splicingDetection) /\ ~IsPending(externalAssistance)

\* The number of brightness discontinuities greater than 0.3 in frames.
Discontinuities ==
    Cardinality({i \in 1..Len(frames) - 1 :
                    Abs(frames[i + 1].data.brightness - frames[i].data.brightness) > 30})

\* C22 as claimed: a sequence with one brightness discontinuity greater than 0.3
\* and a second person in some frames, no other check triggered, yields a
\* suspicion score of at least 0.55 and isSuspicious = true.
C22_SpliceAndSecondPersonSuspicious ==
    (SceneChecked /\ Discontinuities = 1 /\ SecondPersonInView) =>
        /\ Hundredths(SceneScore(splicingDetection, externalAssistance)) >= 55
        /\ isSuspiciousScore(SceneScore(splicingDetection, externalAssistance))

\* The tracked joint angle of frame k of poseData (1-based) for a cyclic test.
TrackedAngle(k) ==
    IF testType = "sit-ups" THEN poseData[k].bodyAngles.leftKnee
    ELSE poseData[k].bodyAngles.leftElbow

\* poseData alternates between the extremes: every frame is above 120 or below
\* 60 (and measured: the code reads an angle of 0 as a missing one) and each
\* frame is on the other side than the frame before it.
AlternatesBetweenExtremes ==
    /\ \A k \in 1..Len(poseData) :
           TrackedAngle(k) > 120 \/ (0 < TrackedAngle(k) /\ TrackedAngle(k) < 60)
    /\ \A k \in 1..Len(poseData) - 1 : (TrackedAngle(k) > 120) # (TrackedAngle(k + 1) > 120)

\* The full cycles of an alternating sequence: one per return to the extreme it
\* started on.
FullCycles == (Len(poseData) - 1) \div 2

\* C23: for a cyclic test whose tracked angle alternates between above 120 and
\* below 60 over N >= 1 full cycles, whichever extreme it starts and ends on,
\* the repetition count is N.
C23_CountEqualsFullCycles ==
    (Segmented /\ Cyclic /\ AlternatesBetweenExtremes /\ FullCycles >= 1) =>
        movement.repetitionCount = FullCycles

\* The memory timer found memory pressure in this step.
MemoryPressureEvent == CheckMemoryPressure /\ optimizer.isLowEndDevice

\* C24 as claimed: a memory-pressure event leaves the frame rate strictly lower
\* than before, until its floor (10) is reached, and no memory or battery event
\* makes the optimizer fail.
C24_MemoryPressureLowersFrameRate ==
    /\ [][MemoryPressureEvent =>
              \/ optimizer'.frameRate < optimizer.frameRate
              \/ optimizer.frameRate = 10]_vars
    /\ [](~optimizer.threw)

\* C24 amended: a memory-pressure event leaves the cache size strictly lower than
\* before, until its floor (10) is reached, and the frame rate as it was; once
\* the optimizer is initialized only a battery event lowers the frame rate; no
\* memory or battery event makes the optimizer fail.
C24_MemoryPressureLowersCacheSize ==
    /\ [][MemoryPressureEvent =>
              /\ \/ optimizer'.cacheSize < optimizer.cacheSize
                 \/ optimizer.cacheSize = 10
              /\ optimizer'.frameRate = optimizer.frameRate]_vars
    /\ [][(optimizer.stage = "monitoring" /\ optimizer'.frameRate < optimizer.frameRate) =>
              optimizer'.batteryLevel < 50]_vars
    /\ [](~optimizer.threw)

C24_Witness ==
    /\ optimizer.memoryPressure
    /\ optimizer.cacheSize = 10
    /\ optimizer.frameRate = 15
    /\ optimizer.batteryLevel = 100
    /\ ~optimizer.threw

\* The keys of a cache.
Keys(map) == {map[k].key : k \in 1..Len(map)}

\* C25: under any interleaving of invocations the analysis cache never holds more
\* than maxCacheSize entries and never two entries of one key, and an insertion
\* that finds the cache full evicts the entry inserted earliest and no other.
C25_CacheBoundedOldestEvicted ==
    /\ [](/\ Len(analysisCache) <= maxCacheSize
          /\ \A i, j \in 1..Len(analysisCache) :
                 analysisCache[i].key = analysisCache[j].key => i = j)
    /\ [][(Len(analysisCache) >= maxCacheSize /\ analysisCache' # analysisCache) =>
              /\ Keys(analysisCache) \ Keys(analysisCache') \subseteq {analysisCache[1].key}
              /\ analysisCache[1].key \in Keys(analysisCache') =>
                     analysisCache'[Len(analysisCache')].key = analysisCache[1].key
              /\ \A k \in 2..Len(analysisCache) :
                     analysisCache'[k - 1].key = analysisCache[k].key]_vars
    /\ [][Len(analysisCache) < maxCacheSize =>
              Keys(analysisCache) \subseteq Keys(analysisCache')]_vars

\* An invocation stored its result and the entry has been evicted since, with
\* the cache full.
C25_Witness ==
    /\ Len(analysisCache) = maxCacheSize
    /\ \E c \in Slots :
           /\ calls[c].pc = "done"
           /\ calls[c].via = "computed"
           /\ cacheKey(calls[c].videoUri, calls[c].testType, calls[c].userProfile)
                  \notin Keys(analysisCache)

\* A full result: the seven compiled parts, no error and no fallback mark.
IsFullResult(r) ==
    /\ {"testType", "performanceMetrics", "movementAnalysis", "cheatAnalysis",
        "benchmarking", "confidence", "recommendations"} \subseteq DOMAIN r
    /\ "error" \notin DOMAIN r
    /\ "fallback" \notin DOMAIN r
    /\ "error" \notin DOMAIN r.movementAnalysis

\* C26: only the result of an invocation whose every stage completed is written
\* to the analysis cache: no cached value is an error or fallback result, a cache
\* hit returns a full result, the cache changes only when an invocation that
\* compiled its results stores them, and an invocation that fails leaves the
\* cache as it was.
C26_OnlyCompletedRunsCached ==
    /\ [](\A k \in 1..Len(analysisCache) : IsFullResult(analysisCache[k].value))
    /\ [](\A c \in Slots :
              (Done(c) /\ calls[c].via = "cache") => IsFullResult(calls[c].result))
    /\ [][analysisCache' # analysisCache =>
              \E c \in Slots :
                  /\ calls[c].pc = "store"
                  /\ calls'[c].pc = "done"
                  /\ IsFullResult(calls[c].results)
                  /\ \E k \in 1..Len(analysisCache') :
                         analysisCache'[k].value = calls[c].results]_vars
    /\ [][\A c \in Slots :
              (calls'[c].pc = "catch" \/ (calls'[c].pc = "done" /\ calls'[c].via = "catch"))
                  /\ calls'[c] # calls[c]
              => analysisCache' = analysisCache]_vars

\* One invocation failed and another was served from the cache.
C26_Witness ==
    \E c, d \in Slots :
        /\ Done(c) /\ calls[c].via = "catch" /\ calls[c].result.error = TRUE
        /\ Done(d) /\ calls[d].via = "cache"
        /\ Len(analysisCache) >= 1

\* The kinds of the phases of a list, in order.
PhaseNames(phases) == [k \in 1..Len(phases) |-> phases[k].phase]

\* C27: the jump segmenter only moves forward, standing -> crouch -> jump ->
\* landing: the phases it emits are a prefix of crouch, jump, landing, so at most
\* three phases and at most one jump.
C27_JumpPhasesArePrefix ==
    (Segmented /\ testType = "vertical-jump") =>
        LET names == PhaseNames(movement.keyMovementPhases)
        IN  /\ Len(names) <= 3
            /\ names = SubSeq(<<"crouch", "jump", "landing">>, 1, Len(names))
            /\ Cardinality({k \in 1..Len(names) : names[k] = "jump"}) <= 1

C27_Witness ==
    /\ Segmented
    /\ testType = "vertical-jump"
    /\ PhaseNames(movement.keyMovementPhases) = <<"crouch", "jump", "landing">>
    /\ Len(poseData) = 4

\* C28: the phases identifyRepetitivePhases emits alternate in kind starting with
\* 'down'; a 'down' ends on a frame whose angle is below 60 and an 'up' on a
\* frame whose angle is above 120, so a frame with an angle in [60, 120] ends no
\* phase.
C28_RepetitivePhasesAlternate ==
    (Segmented /\ Cyclic) =>
        LET phases == movement.keyMovementPhases
        IN  \A k \in 1..Len(phases) :
                /\ phases[k].phase = (IF k % 2 = 1 THEN "down" ELSE "up")
                /\ k > 1 => phases[k].phase # phases[k - 1].phase
                /\ k > 1 => phases[k].startFrame = phases[k - 1].endFrame
                /\ LET angle == TrackedAngle(phases[k].endFrame + 1)
                   IN  IF phases[k].phase = "down" THEN angle < 60 ELSE angle > 120

C28_Witness ==
    /\ Segmented
    /\ Cyclic
    /\ PhaseNames(movement.keyMovementPhases) = <<"down", "up">>
    /\ \E k \in 1..Len(poseData) : TrackedAngle(k) \in {60, 90, 120}

\* The number of checks that triggered.
TriggeredCount(steps) == Len(TriggeredEntries(steps))

\* C29: with the fixed weights and the threshold 0.7, isSuspicious is true only
\* if at least three checks triggered: no single check and no pair of checks
\* (at most 0.30 + 0.25 = 0.55) makes a recording suspicious.
C29_SuspiciousNeedsThreeChecks ==
    Detected =>
        /\ cheatAnalysis.isSuspicious =>
               (failingStep = 0 /\ TriggeredCount(stepResults) >= 3)
        /\ (failingStep = 0 /\ TriggeredCount(stepResults) <= 2) =>
               Hundredths(cheatAnalysis.suspicionScore) <= 55

C29_Witness ==
    /\ Detected
    /\ failingStep = 0
    /\ cheatAnalysis.isSuspicious
    /\ TriggeredCount(stepResults) = 3
    /\ Hundredths(cheatAnalysis.suspicionScore) = 75

\* C30: detectCheatAttempts never throws: when one of its steps fails it returns
\* isSuspicious = false, suspicionScore 0 and the issue 'Analysis failed', so the
\* failed analysis counts as not suspicious and takes nothing off the confidence
\* of the compiled result.
C30_FailedAnalysisNotSuspicious ==
    (Detected /\ failingStep # 0) =>
        /\ {"isSuspicious", "suspicionScore", "detectedIssues", "recommendations", "error"}
               \subseteq DOMAIN cheatAnalysis
        /\ cheatAnalysis.isSuspicious = FALSE
        /\ cheatAnalysis.suspicionScore = Zero
        /\ cheatAnalysis.detectedIssues = <<"Analysis failed">>
        /\ Confident =>
               confidence.value = (IF movementQuality > 800 THEN 900 ELSE 800)

C30_Witness ==
    /\ Detected
    /\ failingStep = 3
    /\ Confident
    /\ confidence.value = 800
    /\ cheatAnalysis.detectedIssues = <<"Analysis failed">>

=============================================================================
